---- MODULE Spec2Model ----
(***************************************************************************)
(* silence-manager: one reconciliation run (Synchronizer.Sync) between an  *)
(* alert-silencing backend and a ticketing backend.                        *)
(*                                                                         *)
(* The engine is a sequential process: ListSilences, then one step per     *)
(* listed silence (processSilence), then GetAlerts and one step per alert  *)
(* (checkRefiredAlerts), then the metrics Push.  Every port call of a run  *)
(* is recorded in `calls`, in the order the code makes it.  A port call    *)
(* may fail; the number of failures injected in one run is bounded.        *)
(***************************************************************************)
EXTENDS Integers, Sequences, FiniteSets, TLC

\* ------------------------------------------------------------------ bounds
MaxSilences == 2        \* silences the backend holds when a run starts
MaxAlerts   == 2        \* firing alerts the backend reports
MaxTime     == 1        \* the clock runs from 0 to MaxTime
MaxFailures == 1        \* port-call failures injected in one run
MaxTextLen  == 2        \* characters of a text after its head
MaxRefLen   == 2        \* characters of a reference

\* ------------------------------------------------------------ value sets
SilenceNames == <<"s1", "s2", "s3", "s4", "s5", "s6">>
SilenceIds   == {SilenceNames[n] : n \in 1..MaxSilences}
FreshIds     == {SilenceNames[n] : n \in (MaxSilences + 1)..(MaxSilences + MaxAlerts)}
AllSilenceIds == SilenceIds \cup FreshIds

TicketKeys == {"T1", "T2"}

StatusOpen       == "open"
StatusInProgress == "in_progress"
StatusResolved   == "resolved"
StatusClosed     == "closed"
StatusReopened   == "reopened"
TicketStatus == {StatusOpen, StatusInProgress, StatusResolved, StatusClosed, StatusReopened}

\* configurations the runs are checked with (time unit: one clock tick)
ThresholdChoices == {2}
ExtensionChoices == {1, 3}
DurationChoices  == {4}
EndsAtChoices    == {1, 3}

NoSilence == [exists |-> FALSE]

\* no adapter call
NoAdapter == [op |-> "none", stage |-> "none"]

\* the codec at rest
NoCodec == [stage |-> "none", side |-> "", prefix |-> <<>>, text |-> <<>>,
            ref |-> <<>>, embedded |-> <<>>, extracted |-> <<>>]

VARIABLES
    silences,    \* alert-silencing backend: id -> silence, or NoSilence
    alerts,      \* alert-silencing backend: the alerts last seen firing
    tickets,     \* ticketing backend: key -> status
    comments,    \* ticketing backend: key -> comments added, in order
    config,      \* SyncConfig
    now,         \* the wall clock
    pc,          \* position of Sync: idle, silences, alerts, done
    listed,      \* the slice ListSilences returned
    i,           \* index of the next listed silence
    allAlerts,   \* the slice GetAlerts returned
    j,           \* index of the next alert
    result,      \* SyncResult
    syncErr,     \* TRUE iff Sync returned a non-nil error
    calls,       \* port calls of this run, in order
    injected,    \* failures injected in this run
    codec,       \* the coupling codec: its inputs, and its results so far
    adapter      \* a call of a backend adapter: its inputs, and its results

vars == <<silences, alerts, tickets, comments, config, now, pc, listed, i,
          allAlerts, j, result, syncErr, calls, injected, codec, adapter>>

\* ------------------------------------------------------------- call log
NoCall == [op |-> "", ok |-> TRUE, phase |-> "", item |-> 0, sid |-> "",
           key |-> "", status |-> "", startsAt |-> -1, endsAt |-> -1,
           matchers |-> <<>>]

Call(op, ok, phase, item) ==
    [NoCall EXCEPT !.op = op, !.ok = ok, !.phase = phase, !.item = item]

BoolToInt(b) == IF b THEN 1 ELSE 0

\* ------------------------------------------------- ticket classification
\* closed counted as resolved
IsResolvedOrClosed(status) == status = StatusResolved \/ status = StatusClosed

IsResolved(status) == status = StatusResolved

\* reopened counted as closed
IsClosedOrReopened(status) ==
    status = StatusClosed \/ status = StatusResolved \/ status = StatusReopened

IsClosed(status) == status = StatusClosed \/ status = StatusResolved

\* reopened counted as open
IsOpenOrReopened(status) ==
    status = StatusOpen \/ status = StatusInProgress \/ status = StatusReopened

IsOpen(status) == status = StatusOpen \/ status = StatusInProgress

\* ----------------------------------------------------------- SyncResult
EmptyResult == [SilencesExtended |-> 0, SilencesDeleted |-> 0,
                SilencesCreated |-> 0, TicketsReopened |-> 0,
                Errors |-> <<>>]

WrapError(wrap, id) == [wrap |-> wrap, id |-> id]

\* -------------------------------------------------- alert-silencing port
DeleteSilence(store, id) == [store EXCEPT ![id] = NoSilence]

\* an extension the backend accepts and does not store
ExtendSilenceNotStored(store, id, newEndTime) == store

ExtendSilence(store, id, newEndTime) ==
    [store EXCEPT ![id] = [@ EXCEPT !.EndsAt = newEndTime]]

\* the id the backend gives the next created silence
NextSilenceId(store) ==
    LET free == {n \in 1..Len(SilenceNames) :
                    /\ SilenceNames[n] \in FreshIds
                    /\ ~store[SilenceNames[n]].exists}
    IN  SilenceNames[CHOOSE n \in free : \A m \in free : n <= m]

CreateSilence(store, silence) ==
    LET id == NextSilenceId(store)
    IN  [store EXCEPT ![id] = [silence EXCEPT !.ID = id]]

ListSilences(store) ==
    LET RECURSIVE Collect(_)
        Collect(n) ==
            IF n > Len(SilenceNames) THEN <<>>
            ELSE IF /\ SilenceNames[n] \in DOMAIN store
                    /\ store[SilenceNames[n]].exists
                 THEN <<store[SilenceNames[n]]>> \o Collect(n + 1)
                 ELSE Collect(n + 1)
    IN  Collect(1)

\* -------------------------------------------------------- ticketing port
AddComment(cm, key, text) == [cm EXCEPT ![key] = Append(@, text)]

CommentText(kind, sid, t) == [kind |-> kind, sid |-> sid, t |-> t]

\* a reopen transition that may leave the ticket closed
ReopenedOrStillClosed == {StatusReopened, StatusOpen, StatusClosed}

\* status of a ticket after a successful reopen transition
ReopenedStatuses == {StatusReopened, StatusOpen}

\* ReopenTicket: the comment is added first, then the transition is made
ReopenOutcomes == {"ok", "comment_failed", "transition_failed"}

\* what a ticket says beside its status: its description, and the silence
\* reference embedded in it
TicketTexts ==
    {[Description |-> "", SilenceRef |-> ""],
     [Description |-> "d", SilenceRef |-> "s1"],
     [Description |-> "d", SilenceRef |-> "s9"]}

\* the texts of the tickets in the backend; no run writes them
TicketText(key) ==
    IF key = "T1" THEN [Description |-> "d", SilenceRef |-> "s1"]
    ELSE [Description |-> "", SilenceRef |-> ""]

\* the ticket GetTicket returns for a key, the backend holding this text
GetTicket(store, key, text) ==
    [Key |-> key, Status |-> store[key], Description |-> text.Description,
     SilenceRef |-> text.SilenceRef]

\* a ticket that refers to a silence taken for an open one
StatusUnlessCoupled(tkt) ==
    IF tkt.SilenceRef # "" THEN StatusOpen ELSE tkt.Status

\* what IsResolved, IsClosed and IsOpen read of the ticket handed to them
StatusOf(tkt) == tkt.Status

\* ------------------------------------------------------- processSilence
\* the reference check left out
SkippedNever(silence) == FALSE

Skipped(silence) == silence.TicketRef = ""

\* the threshold compared with <= instead of <
NearExpiryInclusive(timeUntilExpiry) ==
    timeUntilExpiry <= config.ExpiryThreshold /\ timeUntilExpiry > 0

NearExpiry(timeUntilExpiry) ==
    timeUntilExpiry < config.ExpiryThreshold /\ timeUntilExpiry > 0

\* expiry compared with < instead of <=
HasExpiredStrictly(timeUntilExpiry) == timeUntilExpiry < 0

HasExpired(timeUntilExpiry) == timeUntilExpiry <= 0

NewEndTime == now + config.ExtensionDuration

SilenceFailureCount(f) ==
    BoolToInt(f.get) + BoolToInt(f.write) + BoolToInt(f.comment)

\* which calls of one processSilence fail: none after the call whose
\* failure ends processSilence
SilenceFailurePatterns ==
    {f \in [get : BOOLEAN, write : BOOLEAN, comment : BOOLEAN] :
        /\ f.get => ~f.write /\ ~f.comment
        /\ f.write => ~f.comment}

\* the patterns in which at most `budget` calls fail
SilenceFailures(budget) ==
    {f \in SilenceFailurePatterns : SilenceFailureCount(f) <= budget}

Outcome(cs, err, inj) ==
    [calls |-> cs, err |-> err, injected |-> inj, deleted |-> 0,
     extended |-> 0, silences |-> silences, comments |-> comments]

\* a failed comment returned as the error of the extension
ExtendBranchCommentFatal(n, silence, f, before, kind) ==
    LET id    == silence.ID
        key   == silence.TicketRef
        extOk == silences[id].exists /\ ~f.write
        cExt  == [Call("ExtendSilence", extOk, "silence", n) EXCEPT
                    !.sid = id, !.endsAt = NewEndTime]
        cCmt  == [Call("AddComment", ~f.comment, "silence", n) EXCEPT
                    !.sid = id, !.key = key]
    IN  IF ~extOk
        THEN Outcome(before \o <<cExt>>, TRUE, BoolToInt(f.write))
        ELSE IF f.comment
        THEN [Outcome(before \o <<cExt, cCmt>>, TRUE, 1)
                EXCEPT !.silences = ExtendSilence(silences, id, NewEndTime)]
        ELSE [Outcome(before \o <<cExt, cCmt>>, FALSE, 0)
                EXCEPT !.extended = 1,
                       !.silences = ExtendSilence(silences, id, NewEndTime),
                       !.comments = AddComment(comments, key,
                                        CommentText(kind, id, NewEndTime))]

\* the extend branch of processSilence, after the calls in `before`
ExtendBranch(n, silence, f, before, kind) ==
    LET id    == silence.ID
        key   == silence.TicketRef
        extOk == silences[id].exists /\ ~f.write
        cExt  == [Call("ExtendSilence", extOk, "silence", n) EXCEPT
                    !.sid = id, !.endsAt = NewEndTime]
        cCmt  == [Call("AddComment", ~f.comment, "silence", n) EXCEPT
                    !.sid = id, !.key = key]
    IN  IF ~extOk
        THEN Outcome(before \o <<cExt>>, TRUE, BoolToInt(f.write))
        ELSE [Outcome(before \o <<cExt, cCmt>>, FALSE, BoolToInt(f.comment))
                EXCEPT !.extended = 1,
                       !.silences = ExtendSilence(silences, id, NewEndTime),
                       !.comments = IF f.comment THEN comments
                                    ELSE AddComment(comments, key,
                                            CommentText(kind, id, NewEndTime))]

\* the deletion not counted
DeleteBranchNoCount(n, silence, f, before) ==
    LET id    == silence.ID
        key   == silence.TicketRef
        delOk == ~f.write
        cDel  == [Call("DeleteSilence", delOk, "silence", n) EXCEPT !.sid = id]
        cCmt  == [Call("AddComment", ~f.comment, "silence", n) EXCEPT
                    !.sid = id, !.key = key]
    IN  IF ~delOk
        THEN Outcome(before \o <<cDel>>, TRUE, 1)
        ELSE [Outcome(before \o <<cDel, cCmt>>, FALSE, BoolToInt(f.comment))
                EXCEPT !.silences = DeleteSilence(silences, id),
                       !.comments = IF f.comment THEN comments
                                    ELSE AddComment(comments, key,
                                            CommentText("deleted", id, -1))]

\* a failed deletion tried a second time
DeleteBranchRetry(n, silence, f, before) ==
    LET id    == silence.ID
        key   == silence.TicketRef
        delOk == ~f.write
        cDel  == [Call("DeleteSilence", delOk, "silence", n) EXCEPT !.sid = id]
        cCmt  == [Call("AddComment", ~f.comment, "silence", n) EXCEPT
                    !.sid = id, !.key = key]
    IN  IF ~delOk
        THEN Outcome(before \o <<cDel, cDel>>, TRUE, 1)
        ELSE [Outcome(before \o <<cDel, cCmt>>, FALSE, BoolToInt(f.comment))
                EXCEPT !.deleted = 1,
                       !.silences = DeleteSilence(silences, id),
                       !.comments = IF f.comment THEN comments
                                    ELSE AddComment(comments, key,
                                            CommentText("deleted", id, -1))]

\* the delete branch of processSilence, after the calls in `before`
DeleteBranch(n, silence, f, before) ==
    LET id    == silence.ID
        key   == silence.TicketRef
        delOk == ~f.write
        cDel  == [Call("DeleteSilence", delOk, "silence", n) EXCEPT !.sid = id]
        cCmt  == [Call("AddComment", ~f.comment, "silence", n) EXCEPT
                    !.sid = id, !.key = key]
    IN  IF ~delOk
        THEN Outcome(before \o <<cDel>>, TRUE, 1)
        ELSE [Outcome(before \o <<cDel, cCmt>>, FALSE, BoolToInt(f.comment))
                EXCEPT !.deleted = 1,
                       !.silences = DeleteSilence(silences, id),
                       !.comments = IF f.comment THEN comments
                                    ELSE AddComment(comments, key,
                                            CommentText("deleted", id, -1))]

\* processSilence, the ticket of the silence carrying this text
processSilenceOf(text, n, silence, f) ==
    LET id    == silence.ID
        ref   == silence.TicketRef
        found == ref \in DOMAIN tickets
        getOk == found /\ ~f.get
        status == IF getOk THEN StatusOf(GetTicket(tickets, ref, text)) ELSE ""
        cGet  == [Call("GetTicket", getOk, "silence", n) EXCEPT
                    !.sid = id, !.key = ref, !.status = status]
        timeUntilExpiry == silence.EndsAt - now
    IN  IF ~getOk
        THEN Outcome(<<cGet>>, TRUE, BoolToInt(found /\ f.get))
        ELSE IF IsResolved(status)
        THEN DeleteBranch(n, silence, f, <<cGet>>)
        ELSE IF IsOpen(status) /\ NearExpiry(timeUntilExpiry)
        THEN ExtendBranch(n, silence, f, <<cGet>>, "extended")
        ELSE IF IsOpen(status) /\ HasExpired(timeUntilExpiry)
        THEN ExtendBranch(n, silence, f, <<cGet>>, "expired_extended")
        ELSE Outcome(<<cGet>>, FALSE, 0)

processSilence(n, silence, f) ==
    processSilenceOf(TicketText(silence.TicketRef), n, silence, f)

\* --------------------------------------------------- checkRefiredAlerts
\* the alert's team added to the labels matched on
importantLabelsWithTeam == <<"alertname", "job", "instance", "severity", "team">>

importantLabels == <<"alertname", "job", "instance", "severity">>

createMatchersFromAlert(alert) ==
    LET RECURSIVE Build(_)
        Build(n) ==
            IF n > Len(importantLabels) THEN <<>>
            ELSE IF importantLabels[n] \in DOMAIN alert.Labels
                 THEN <<[Name |-> importantLabels[n],
                         Value |-> alert.Labels[importantLabels[n]],
                         IsRegex |-> FALSE, IsEqual |-> TRUE]>> \o Build(n + 1)
                 ELSE Build(n + 1)
    IN  Build(1)

HasTicketLabel(alert) == "ticket" \in DOMAIN alert.Labels

\* a silence ending now counted as active
StillActiveInclusive(silence) == now <= silence.EndsAt

\* time.Now().Before(silence.EndsAt)
StillActive(silence) == now < silence.EndsAt

NewSilence(key, alert) ==
    [exists |-> TRUE, ID |-> "", CreatedBy |-> "silence-manager",
     Comment |-> "Automatically recreated for refired alert",
     StartsAt |-> now, EndsAt |-> now + config.DefaultSilenceDuration,
     Matchers |-> createMatchersFromAlert(alert), TicketRef |-> key]

AlertFailureCount(f) ==
    BoolToInt(f.get) + BoolToInt(f.getSilence) + BoolToInt(f.reopen # "ok")
        + BoolToInt(f.create) + BoolToInt(f.comment)

\* which calls of one loop iteration fail, and the status a reopen leads
\* to: none fails after the call whose failure ends the iteration
AlertFailurePatterns ==
    {f \in [get : BOOLEAN, getSilence : BOOLEAN, reopen : ReopenOutcomes,
            post : ReopenedStatuses, create : BOOLEAN, comment : BOOLEAN] :
        /\ f.get => ~f.getSilence /\ f.reopen = "ok"
        /\ (f.get \/ f.reopen # "ok") =>
              ~f.create /\ ~f.comment /\ f.post = StatusReopened
        /\ f.create => ~f.comment}

\* the patterns in which at most `budget` calls fail
AlertFailures(budget) ==
    {f \in AlertFailurePatterns : AlertFailureCount(f) <= budget}

AlertOutcome(cs, errs, inj) ==
    [calls |-> cs, errs |-> errs, injected |-> inj, reopened |-> 0,
     created |-> 0, silences |-> silences, tickets |-> tickets,
     comments |-> comments]

\* a failed reopen only logged
ReopenErrorLogged(key) == <<>>

\* the errors a failed ReopenTicket adds to the result
ReopenError(key) == <<WrapError("reopen ticket", key)>>

\* a failed creation only logged
CreateErrorLogged(key) == <<>>

\* the errors a failed CreateSilence adds to the result
CreateError(key) == <<WrapError("create silence for", key)>>

\* reopen the ticket and create the silence, after the calls in `before`
ReopenBranch(n, alert, key, f, before, injBefore) ==
    LET reopenOk == f.reopen = "ok"
        cReopen  == [Call("ReopenTicket", reopenOk, "alert", n) EXCEPT !.key = key]
        afterMsg == IF f.reopen = "comment_failed" THEN comments
                    ELSE AddComment(comments, key, CommentText("refired", "", -1))
        newSilence == NewSilence(key, alert)
        createOk == ~f.create
        newId    == IF createOk THEN NextSilenceId(silences) ELSE ""
        cCreate  == [Call("CreateSilence", createOk, "alert", n) EXCEPT
                        !.sid = newId, !.key = newSilence.TicketRef,
                        !.startsAt = newSilence.StartsAt,
                        !.endsAt = newSilence.EndsAt,
                        !.matchers = newSilence.Matchers]
        cCmt     == [Call("AddComment", ~f.comment, "alert", n) EXCEPT
                        !.sid = newId, !.key = key]
        reopenedTickets == [tickets EXCEPT ![key] = f.post]
    IN  IF ~reopenOk
        THEN [AlertOutcome(before \o <<cReopen>>,
                           ReopenError(key), injBefore + 1)
                EXCEPT !.comments = afterMsg]
        ELSE IF ~createOk
        THEN [AlertOutcome(before \o <<cReopen, cCreate>>,
                           CreateError(key), injBefore + 1)
                EXCEPT !.reopened = 1, !.tickets = reopenedTickets,
                       !.comments = afterMsg]
        ELSE [AlertOutcome(before \o <<cReopen, cCreate, cCmt>>, <<>>,
                           injBefore + BoolToInt(f.comment))
                EXCEPT !.reopened = 1, !.created = 1,
                       !.tickets = reopenedTickets,
                       !.silences = CreateSilence(silences, newSilence),
                       !.comments = IF f.comment THEN afterMsg
                                    ELSE AddComment(afterMsg, key,
                                            CommentText("created", newId, -1))]

\* a ticket that could not be fetched handled as a closed one
TicketFetchFailedReopens(n, alert, key, f, cGet, inj) ==
    ReopenBranch(n, alert, key, f, <<cGet>>, inj)

\* a failed ticket fetch added to the errors of the result
TicketFetchFailedRecorded(n, alert, key, f, cGet, inj) ==
    AlertOutcome(<<cGet>>, <<WrapError("get ticket", key)>>, inj)

\* the failed ticket fetch of an alert: logged, and the alert is left
TicketFetchFailed(n, alert, key, f, cGet, inj) ==
    AlertOutcome(<<cGet>>, <<>>, inj)

\* the body of the loop over the alerts, for the n-th alert
\* the loop body of checkRefiredAlerts, the ticket of the alert carrying
\* this text
checkAlertOf(text, n, alert, f) ==
    LET ticketRef  == alert.Labels["ticket"]
        hasSilence == "silence_id" \in DOMAIN alert.Labels
        silenceID  == alert.Labels["silence_id"]
        found  == ticketRef \in DOMAIN tickets
        getOk  == found /\ ~f.get
        status == IF getOk THEN StatusOf(GetTicket(tickets, ticketRef, text)) ELSE ""
        cGet   == [Call("GetTicket", getOk, "alert", n) EXCEPT
                     !.key = ticketRef, !.status = status]
        silenceFound == silenceID \in DOMAIN silences /\ silences[silenceID].exists
        getSilenceOk == silenceFound /\ ~f.getSilence
        cGetSilence  == [Call("GetSilence", getSilenceOk, "alert", n) EXCEPT
                            !.sid = silenceID,
                            !.endsAt = IF getSilenceOk
                                       THEN silences[silenceID].EndsAt ELSE -1]
        hasActiveSilence ==
            hasSilence /\ getSilenceOk /\ StillActive(silences[silenceID])
    IN  IF ~HasTicketLabel(alert)
        THEN AlertOutcome(<<>>, <<>>, 0)
        ELSE IF ~getOk
        THEN TicketFetchFailed(n, alert, ticketRef, f, cGet,
                               BoolToInt(found /\ f.get))
        ELSE IF ~IsClosed(status)
        THEN AlertOutcome(<<cGet>>, <<>>, 0)
        ELSE IF hasSilence
        THEN IF hasActiveSilence
             THEN AlertOutcome(<<cGet, cGetSilence>>, <<>>, 0)
             ELSE ReopenBranch(n, alert, ticketRef, f, <<cGet, cGetSilence>>,
                               BoolToInt(silenceFound /\ f.getSilence))
        ELSE ReopenBranch(n, alert, ticketRef, f, <<cGet>>, 0)

checkAlert(n, alert, f) ==
    checkAlertOf(IF HasTicketLabel(alert) THEN TicketText(alert.Labels["ticket"])
                 ELSE TicketText(""),
                 n, alert, f)

\* ----------------------------------------------------------- the run
TypeSilence(id, ref, endsAt) ==
    [exists |-> TRUE, ID |-> id, CreatedBy |-> "user", Comment |-> "c",
     StartsAt |-> 0, EndsAt |-> endsAt, Matchers |-> <<>>, TicketRef |-> ref]

\* the alerts the backend may report
Labels1 == ("team" :> "ops")
Labels2 == ("ticket" :> "T1") @@ ("alertname" :> "Down") @@ ("severity" :> "page")
               @@ ("team" :> "ops")
Labels3 == ("ticket" :> "T1") @@ ("silence_id" :> "s1") @@ ("alertname" :> "Down")
               @@ ("job" :> "api") @@ ("instance" :> "h1") @@ ("severity" :> "page")

AlertChoices == {[Labels |-> l] : l \in {Labels1, Labels2, Labels3}}

AlertLists == UNION {[1..n -> AlertChoices] : n \in 0..MaxAlerts}

\* s1 is uncoupled or coupled to T1
FirstSilences ==
    {TypeSilence("s1", ref, e) : ref \in {"", "T1"}, e \in EndsAtChoices}

\* any other silence is absent (no end time) or coupled to T2
OtherSilence(id, e) ==
    IF e = -1 THEN NoSilence ELSE TypeSilence(id, "T2", e)

\* T1 is in any status; T2 is open or resolved, and open when no silence
\* refers to it (it is never fetched then)
InitTickets(store) ==
    {t \in [TicketKeys -> TicketStatus] :
        /\ t["T2"] \in {StatusOpen, StatusResolved}
        /\ (\A id \in SilenceIds \ {"s1"} : store[id] = NoSilence)
                => t["T2"] = StatusOpen}

InitConfig == {c \in [ExpiryThreshold : ThresholdChoices,
                      ExtensionDuration : ExtensionChoices,
                      DefaultSilenceDuration : DurationChoices,
                      CheckAlerts : BOOLEAN] :
                    c.CheckAlerts <=> c.ExtensionDuration >= c.ExpiryThreshold}

\* the stores a run starts from; a run that checks the alerts starts with
\* s1 alone
InitSilences(checkAlerts) ==
    LET others == SilenceIds \ {"s1"}
        ends   == IF checkAlerts THEN {-1} ELSE {-1} \cup EndsAtChoices
    IN  {[id \in AllSilenceIds |->
            IF id = "s1" THEN first
            ELSE IF id \in others THEN OtherSilence(id, e[id])
            ELSE NoSilence] : first \in FirstSilences, e \in [others -> ends]}

\* the state a run starts in, configured with one of `configs`, the result
\* of the run before being `previous`
InitWith(configs, previous) ==
    /\ config \in configs
    /\ silences \in InitSilences(config.CheckAlerts)
    /\ alerts = <<>>
    /\ tickets \in InitTickets(silences)
    /\ comments = [k \in TicketKeys |-> <<>>]
    /\ now = 0
    /\ pc = "idle"
    /\ listed = <<>>
    /\ i = 1
    /\ allAlerts = <<>>
    /\ j = 1
    /\ result = previous
    /\ syncErr = FALSE
    /\ calls = <<>>
    /\ injected = 0
    /\ codec = NoCodec
    /\ adapter = NoAdapter

\* NewSynchronizer with one of the configurations the runs are checked with
InitAfter(previous) == InitWith(InitConfig, previous)

Init == InitAfter(EmptyResult)

backend == <<silences, alerts, tickets, comments, config, codec, adapter>>

\* time passes before a run; a run takes less than one unit of time
Tick ==
    /\ pc = "idle"
    /\ now < MaxTime
    /\ now' = now + 1
    /\ UNCHANGED <<backend, pc, listed, i, allAlerts, j, result, syncErr,
                   calls, injected>>

\* the error of ListSilences ignored
ListReturnIgnoringError(fail) ==
    [pc |-> "silences", syncErr |-> FALSE,
     listed |-> IF fail THEN <<>> ELSE ListSilences(silences)]

\* what Sync does with the return of ListSilences
ListReturn(fail) ==
    IF fail
    THEN [pc |-> "done", syncErr |-> TRUE, listed |-> <<>>]
    ELSE [pc |-> "silences", syncErr |-> FALSE, listed |-> ListSilences(silences)]

\* the loop over the silences left at the first error
NextIndexAbort(n, err) == IF err THEN Len(listed) + 1 ELSE n + 1

\* the loop over the silences tries a failed silence again
NextIndexRetry(n, err) == IF err THEN n ELSE n + 1

\* the loop over the silences goes on after an error
NextIndex(n, err) == n + 1

\* the result of the run before handed on to the next run
CarriedSyncResult(previous) == previous

\* result := &SyncResult{}: every run counts in a result of its own
NewSyncResult(previous) == EmptyResult

\* Sync, up to the return of ListSilences
SyncListSilences ==
    /\ pc = "idle"
    /\ result' = NewSyncResult(result)
    /\ \E fail \in BOOLEAN :
        /\ BoolToInt(fail) <= MaxFailures
        /\ injected' = BoolToInt(fail)
        /\ calls' = <<Call("ListSilences", ~fail, "list", 0)>>
        /\ syncErr' = ListReturn(fail).syncErr
        /\ pc' = ListReturn(fail).pc
        /\ listed' = ListReturn(fail).listed
    /\ i' = 1
    /\ j' = 1
    /\ allAlerts' = <<>>
    /\ UNCHANGED <<backend, now>>

\* one iteration of the loop over the listed silences
SyncProcessSilence ==
    /\ pc = "silences"
    /\ i <= Len(listed)
    /\ LET silence == listed[i] IN
        IF Skipped(silence)
        THEN /\ i' = i + 1
             /\ UNCHANGED <<silences, comments, result, calls, injected>>
        ELSE \E f \in SilenceFailures(MaxFailures - injected) :
          \E o \in {processSilence(i, silence, f)} :
            LET cChk == [Call("RecordSilenceCheck", TRUE, "silence", i) EXCEPT
                            !.sid = silence.ID, !.key = silence.TicketRef]
                cExp == [Call("RecordSilenceExpiry", TRUE, "silence", i) EXCEPT
                            !.sid = silence.ID, !.key = silence.TicketRef,
                            !.endsAt = silence.EndsAt]
            IN  /\ injected + o.injected <= MaxFailures
                /\ SilenceFailureCount(f) = o.injected   \* a call not made does not fail
                /\ injected' = injected + o.injected
                /\ i' = NextIndex(i, o.err)
                /\ calls' = calls \o <<cChk, cExp>> \o o.calls
                /\ silences' = o.silences
                /\ comments' = o.comments
                /\ result' = [result EXCEPT
                      !.SilencesDeleted = @ + o.deleted,
                      !.SilencesExtended = @ + o.extended,
                      !.Errors = IF o.err
                                 THEN Append(@, WrapError("silence", silence.ID))
                                 ELSE @]
    /\ UNCHANGED <<alerts, tickets, config, now, pc, listed, allAlerts, j,
                   syncErr, codec, adapter>>

\* the alerts checked whatever the configuration says
CheckAlertsAlways == TRUE

\* if s.config.CheckAlerts
CheckAlertsEnabled == config.CheckAlerts

\* the error of checkRefiredAlerts only logged
DetectionErrorDropped(r) == r

\* what Sync does with the error checkRefiredAlerts returns
DetectionError(r) ==
    [r EXCEPT !.Errors = Append(@, WrapError("check refired alerts", ""))]

\* the alerts the backend holds when GetAlerts is called: any, and in a
\* second run the same as in the first, nothing outside having changed
FiringAlerts ==
    IF adapter.op = "Sync" /\ adapter.sawAlerts THEN {alerts} ELSE AlertLists

\* checkRefiredAlerts, up to the return of GetAlerts, which reports the
\* alerts that are firing when it is called
SyncGetAlerts ==
    /\ pc = "silences"
    /\ i > Len(listed)
    /\ CheckAlertsEnabled
    /\ pc' = "alerts"
    /\ j' = 1
    /\ \E fail \in BOOLEAN :
        /\ injected + BoolToInt(fail) <= MaxFailures
        /\ injected' = injected + BoolToInt(fail)
        /\ calls' = Append(calls, Call("GetAlerts", ~fail, "alerts", 0))
        /\ IF fail
           THEN /\ allAlerts' = <<>>
                /\ result' = DetectionError(result)
                /\ UNCHANGED alerts
           ELSE /\ alerts' \in FiringAlerts
                /\ allAlerts' = alerts'
                /\ UNCHANGED result
    /\ UNCHANGED <<silences, tickets, comments, config, now, listed, i,
                   syncErr, codec, adapter>>

\* one iteration of the loop over the alerts
SyncCheckAlert ==
    /\ pc = "alerts"
    /\ j <= Len(allAlerts)
    /\ j' = j + 1
    /\ \E f \in AlertFailures(MaxFailures - injected) :
        \E o \in {checkAlert(j, allAlerts[j], f)} :
            /\ injected + o.injected <= MaxFailures
            /\ AlertFailureCount(f) = o.injected   \* a call not made does not fail
            /\ o.reopened = 0 => f.post = StatusReopened
            /\ injected' = injected + o.injected
            /\ calls' = calls \o o.calls
            /\ silences' = o.silences
            /\ tickets' = o.tickets
            /\ comments' = o.comments
            /\ result' = [result EXCEPT
                  !.TicketsReopened = @ + o.reopened,
                  !.SilencesCreated = @ + o.created,
                  !.Errors = @ \o o.errs]
    /\ UNCHANGED <<alerts, config, now, pc, listed, i, allAlerts, syncErr,
                   codec, adapter>>

\* a failed push only logged
PushErrorLogged(r) == r

\* what Sync does with the error Push returns
PushError(r) == [r EXCEPT !.Errors = Append(@, WrapError("push metrics", ""))]

\* the metrics push, and the return of Sync
SyncPush ==
    /\ \/ pc = "silences" /\ i > Len(listed) /\ ~CheckAlertsEnabled
       \/ pc = "alerts" /\ j > Len(allAlerts)
    /\ pc' = "done"
    /\ \E fail \in BOOLEAN :
        /\ injected + BoolToInt(fail) <= MaxFailures
        /\ injected' = injected + BoolToInt(fail)
        /\ calls' = Append(calls, Call("Push", ~fail, "push", 0))
        /\ result' = IF fail THEN PushError(result) ELSE result
    /\ UNCHANGED <<backend, now, listed, i, allAlerts, j, syncErr>>

Next ==
    \/ Tick
    \/ SyncListSilences
    \/ SyncProcessSilence
    \/ SyncGetAlerts
    \/ SyncCheckAlert
    \/ SyncPush

Spec == Init /\ [][Next]_vars

\* a run that has started goes on: Sync is one sequential function whose
\* loops range over the slices the backends returned
SyncStep ==
    \/ SyncProcessSilence
    \/ SyncGetAlerts
    \/ SyncCheckAlert
    \/ SyncPush

FairSpec == Spec /\ WF_vars(SyncStep)

\* results a run before may have returned
PreviousResults ==
    {EmptyResult,
     [SilencesExtended |-> 1, SilencesDeleted |-> 1, SilencesCreated |-> 1,
      TicketsReopened |-> 1, Errors |-> <<WrapError("push metrics", "")>>]}

\* a run that follows another run
NextRunInit == \E previous \in PreviousResults : InitAfter(previous)

NextRunSpec == NextRunInit /\ [][Next]_vars

\* =================================================================
\* The coupling codec of the adapters: a reference is embedded in a text
\* (silence comment, ticket description) and extracted from it again.
\* Texts are sequences of characters.
\* =================================================================

\* the characters the bodies of texts and the references are made of
Chars == {"\n", "a", ":"}

Strings(n) == UNION {[1..k -> Chars] : k \in 0..n}

\* annotation prefixes the adapters are configured with (never empty)
Prefixes == {<<"p">>, <<"q", "q">>}

\* fmt.Sprintf("# %s: ", annotationPrefix)
SilenceMarker(annotationPrefix) == <<"#", " ">> \o annotationPrefix \o <<":", " ">>

\* fmt.Sprintf("%s: ", annotationPrefix)
TicketMarker(annotationPrefix) == annotationPrefix \o <<":", " ">>

\* how the texts given to the codec begin
Heads ==
    {<<>>}
        \cup {SilenceMarker(p) : p \in Prefixes}
        \cup {TicketMarker(p) : p \in Prefixes}
        \cup {<<"a">> \o SilenceMarker(p) : p \in Prefixes}

Texts == {h \o b : h \in Heads, b \in Strings(MaxTextLen)}

Refs == Strings(MaxRefLen)

\* the line break kept at the end of the reference
UntilNewlineInclusive(rest) ==
    LET breaks == {n \in DOMAIN rest : rest[n] = "\n"}
    IN  IF breaks = {} THEN rest
        ELSE SubSeq(rest, 1, CHOOSE n \in breaks : \A m \in breaks : n <= m)

\* rest[:i] for the first i with rest[i] = '\n', the whole of rest if none
UntilNewline(rest) ==
    LET breaks == {n \in DOMAIN rest : rest[n] = "\n"}
    IN  IF breaks = {} THEN rest
        ELSE SubSeq(rest, 1, (CHOOSE n \in breaks : \A m \in breaks : n <= m) - 1)

\* the literal compare at position zero both extractors make
ExtractAfter(prefix, text) ==
    IF Len(text) < Len(prefix) THEN <<>>
    ELSE IF SubSeq(text, 1, Len(prefix)) = prefix
         THEN UntilNewline(SubSeq(text, Len(prefix) + 1, Len(text)))
         ELSE <<>>

\* the end of the reference not looked for
extractTicketRefToEnd(annotationPrefix, comment) ==
    LET prefix == SilenceMarker(annotationPrefix)
    IN  IF Len(comment) >= Len(prefix) /\ SubSeq(comment, 1, Len(prefix)) = prefix
        THEN SubSeq(comment, Len(prefix) + 1, Len(comment))
        ELSE <<>>

extractTicketRef(annotationPrefix, comment) ==
    ExtractAfter(SilenceMarker(annotationPrefix), comment)

extractSilenceRef(annotationPrefix, description) ==
    ExtractAfter(TicketMarker(annotationPrefix), description)

\* the comment convertToPromSilence submits for a silence
convertToPromSilence(annotationPrefix, comment, ticketRef) ==
    IF ticketRef # <<>>
    THEN SilenceMarker(annotationPrefix) \o ticketRef \o <<"\n">> \o comment
    ELSE comment

\* a Jira description document: the texts of its paragraphs
createJiraDescription(text) == <<text>>

extractDescriptionText(desc) ==
    LET RECURSIVE Join(_)
        Join(n) ==
            IF n = 0 THEN <<>>
            ELSE IF desc[n] = <<>> THEN Join(n - 1)
            ELSE IF Join(n - 1) = <<>> THEN desc[n]
            ELSE Join(n - 1) \o <<"\n">> \o desc[n]
    IN  Join(Len(desc))

\* the description document convertToJiraIssue submits for a ticket
convertToJiraIssue(annotationPrefix, description, silenceRef) ==
    createJiraDescription(
        IF silenceRef # <<>>
        THEN TicketMarker(annotationPrefix) \o silenceRef \o <<"\n", "\n">>
                \o description
        ELSE description)

\* the state of a run, while the codec alone is exercised
SyncIdle ==
    /\ silences = [id \in AllSilenceIds |-> NoSilence]
    /\ alerts = <<>>
    /\ tickets = [k \in TicketKeys |-> StatusOpen]
    /\ comments = [k \in TicketKeys |-> <<>>]
    /\ config = [ExpiryThreshold |-> 2, ExtensionDuration |-> 3,
                 DefaultSilenceDuration |-> 4, CheckAlerts |-> FALSE]
    /\ now = 0
    /\ pc = "idle"
    /\ listed = <<>>
    /\ i = 1
    /\ allAlerts = <<>>
    /\ j = 1
    /\ result = EmptyResult
    /\ syncErr = FALSE
    /\ calls = <<>>
    /\ injected = 0

syncVars == <<silences, alerts, tickets, comments, config, now, pc, listed,
              i, allAlerts, j, result, syncErr, calls, injected>>

CodecInit ==
    /\ SyncIdle
    /\ adapter = NoAdapter
    /\ codec \in {[NoCodec EXCEPT !.stage = "input", !.side = s, !.prefix = p,
                                  !.text = t, !.ref = r] :
                    s \in {"silence", "ticket"}, p \in Prefixes,
                    t \in Texts, r \in Refs}

\* the reference is embedded in the text on its way to the backend
CodecEmbed ==
    /\ codec.stage = "input"
    /\ codec' = [codec EXCEPT
          !.stage = "embedded",
          !.embedded =
              IF codec.side = "silence"
              THEN convertToPromSilence(codec.prefix, codec.text, codec.ref)
              ELSE extractDescriptionText(
                      convertToJiraIssue(codec.prefix, codec.text, codec.ref))]
    /\ UNCHANGED <<syncVars, adapter>>

\* the reference is extracted from the text the backend returns
CodecExtract ==
    /\ codec.stage = "embedded"
    /\ codec' = [codec EXCEPT
          !.stage = "extracted",
          !.extracted =
              IF codec.side = "silence"
              THEN extractTicketRef(codec.prefix, codec.embedded)
              ELSE extractSilenceRef(codec.prefix, codec.embedded)]
    /\ UNCHANGED <<syncVars, adapter>>

\* a reference is looked for in a text as the backend holds it
CodecScan ==
    /\ codec.stage = "input"
    /\ codec' = [codec EXCEPT
          !.stage = "scanned",
          !.extracted =
              IF codec.side = "silence"
              THEN extractTicketRef(codec.prefix, codec.text)
              ELSE extractSilenceRef(codec.prefix, codec.text)]
    /\ UNCHANGED <<syncVars, adapter>>

CodecNext ==
    \/ CodecEmbed
    \/ CodecExtract
    \/ CodecScan

CodecSpec == CodecInit /\ [][CodecNext]_vars

\* ------------------------------ Prometheus adapter: ListSilences

MaxBackendSilences == 2

\* the state the backend reports for a silence
SilenceStates == {"active", "pending", "expired", ""}

\* the status of a backend silence: absent, or a state
NoStatus == [present |-> FALSE, State |-> ""]
StatusChoices == {NoStatus} \cup {[present |-> TRUE, State |-> s] : s \in SilenceStates}

\* the comments a backend silence may carry
BackendPrefix == <<"p">>
BackendComments == {<<>>, SilenceMarker(BackendPrefix) \o <<"a">>}

\* the lists of silences the backend may hold, each silence with its own ID
BackendLists ==
    UNION {[1..n -> StatusChoices \X BackendComments] : n \in 0..MaxBackendSilences}

promSilence(n, choice) ==
    [ID |-> n, Status |-> choice[1], Comment |-> choice[2],
     CreatedBy |-> "silence-manager", StartsAt |-> 0, EndsAt |-> 1,
     Matchers |-> <<>>]

convertFromPromSilence(ps) ==
    [ID |-> ps.ID, CreatedBy |-> ps.CreatedBy, Comment |-> ps.Comment,
     StartsAt |-> ps.StartsAt, EndsAt |-> ps.EndsAt, Matchers |-> ps.Matchers,
     TicketRef |-> extractTicketRef(BackendPrefix, ps.Comment)]

IsListedUnlessExpired(ps) ==
    ps.Status.present /\ ps.Status.State # "expired"

\* only active or pending silences are included
IsListed(ps) ==
    ps.Status.present /\ ps.Status.State \in {"active", "pending"}

PromListSilences(psList) ==
    LET RECURSIVE Upto(_)
        Upto(n) ==
            IF n = 0 THEN <<>>
            ELSE IF IsListed(psList[n])
                 THEN Append(Upto(n - 1), convertFromPromSilence(psList[n]))
                 ELSE Upto(n - 1)
    IN  Upto(Len(psList))

ListInit ==
    /\ SyncIdle
    /\ codec = NoCodec
    /\ adapter \in {[op |-> "ListSilences", stage |-> "input",
                     psList |-> [n \in DOMAIN l |-> promSilence(n, l[n])],
                     returned |-> <<>>] : l \in BackendLists}

ListCall ==
    /\ adapter.op = "ListSilences"
    /\ adapter.stage = "input"
    /\ adapter' = [adapter EXCEPT !.stage = "returned",
                                  !.returned = PromListSilences(adapter.psList)]
    /\ UNCHANGED <<syncVars, codec>>

ListNext == ListCall

ListSpec == ListInit /\ [][ListNext]_vars

\* ------------------------------ Prometheus adapter: GetAlerts

MaxBackendAlerts == 2
MaxMatchers == 2

\* the states the backend reports for an alert
AlertStates == {"active", "suppressed"}

\* label sets of backend alerts: a label may be absent, empty or set
EmptyLabels == [n \in {} |-> ""]
BackendLabels ==
    {EmptyLabels, [n \in {"l"} |-> ""], [n \in {"l"} |-> "x"],
     [n \in {"l", "m"} |-> "x"]}

promAlert(labels, state) == [Labels |-> labels, Status |-> [State |-> state]]

BackendAlerts == {promAlert(l, s) : l \in BackendLabels, s \in AlertStates}

Matcher(name, value, isRegex, isEqual) ==
    [Name |-> name, Value |-> value, IsRegex |-> isRegex, IsEqual |-> isEqual]

MatcherChoices ==
    {Matcher(n, "x", r, e) : n \in {"l", "m"}, r \in BOOLEAN, e \in BOOLEAN}
        \cup {Matcher("l", "", r, TRUE) : r \in BOOLEAN}

SeqsUpTo(S, n) == UNION {[1..k -> S] : k \in 0..n}

convertFromPromAlert(pa) == [Labels |-> pa.Labels, Status |-> pa.Status.State]

matchesMatcherLabelRequired(alert, matcher) ==
    LET exists     == matcher.Name \in DOMAIN alert.Labels
        labelValue == IF exists THEN alert.Labels[matcher.Name] ELSE ""
    IN  IF matcher.IsRegex
        THEN matcher.IsEqual = (labelValue = matcher.Value)
        ELSE IF matcher.IsEqual
             THEN exists /\ labelValue = matcher.Value
             ELSE exists /\ labelValue # matcher.Value

\* one round of the loop of matchesMatchers: the matcher does not reject
matchesMatcher(alert, matcher) ==
    LET exists     == matcher.Name \in DOMAIN alert.Labels
        labelValue == IF exists THEN alert.Labels[matcher.Name] ELSE ""
    IN  IF matcher.IsRegex
        THEN matcher.IsEqual = (labelValue = matcher.Value)
        ELSE IF matcher.IsEqual
             THEN ~(~exists \/ labelValue # matcher.Value)
             ELSE ~(exists /\ labelValue = matcher.Value)

matchesMatchers(alert, matchers) ==
    IF Len(matchers) = 0 THEN TRUE
    ELSE \A k \in DOMAIN matchers : matchesMatcher(alert, matchers[k])

PromGetAlerts(paList, matchers) ==
    LET RECURSIVE Upto(_)
        Upto(n) ==
            IF n = 0 THEN <<>>
            ELSE IF /\ paList[n].Status.State = "active"
                    /\ matchesMatchers(convertFromPromAlert(paList[n]), matchers)
                 THEN Append(Upto(n - 1), convertFromPromAlert(paList[n]))
                 ELSE Upto(n - 1)
    IN  Upto(Len(paList))

AlertsInit ==
    /\ SyncIdle
    /\ codec = NoCodec
    /\ adapter \in {[op |-> "GetAlerts", stage |-> "input", paList |-> l,
                     matchers |-> ms, returned |-> <<>>] :
                       l \in SeqsUpTo(BackendAlerts, MaxBackendAlerts),
                       ms \in SeqsUpTo(MatcherChoices, MaxMatchers)}

AlertsCall ==
    /\ adapter.op = "GetAlerts"
    /\ adapter.stage = "input"
    /\ adapter' = [adapter EXCEPT
          !.stage = "returned",
          !.returned = PromGetAlerts(adapter.paList, adapter.matchers)]
    /\ UNCHANGED <<syncVars, codec>>

AlertsNext == AlertsCall

AlertsSpec == AlertsInit /\ [][AlertsNext]_vars

\* ------------------------------ Jira adapter: ReopenTicket

MaxTransitions == 2

\* the names of workflow transitions and of their target statuses
TransitionNames == {"Reopen", "REOPEN", "Close"}
TargetNames == {"Open", "reopened", "To Do", "Closed"}

ToLower(name) ==
    CASE name \in {"Reopen", "REOPEN"} -> "reopen"
      [] name = "Close" -> "close"
      [] name = "Open" -> "open"
      [] name = "To Do" -> "to do"
      [] name = "Closed" -> "closed"
      [] OTHER -> name

EqualFold(s, t) == ToLower(s) = ToLower(t)

\* a transition the backend offers; its ID is its place in the list
jiraTransition(n, choice) == [ID |-> n, Name |-> choice[1], To |-> choice[2]]

\* no transition ID
NoTransition == 0

TransitionLists ==
    {[n \in DOMAIN l |-> jiraTransition(n, l[n])] :
        l \in SeqsUpTo(TransitionNames \X TargetNames, MaxTransitions)}

IsReopenTransition(t) ==
    \/ EqualFold(t.Name, "reopen")
    \/ EqualFold(t.To, "open")
    \/ EqualFold(t.To, "reopened")
    \/ EqualFold(t.To, "to do")

LastReopenTransition(transitions) ==
    LET found == {n \in DOMAIN transitions : IsReopenTransition(transitions[n])}
    IN  IF found = {} THEN NoTransition
        ELSE transitions[CHOOSE n \in found : \A k \in found : k <= n].ID

\* the ID the loop of ReopenTicket leaves in transitionID
FirstReopenTransition(transitions) ==
    LET found == {n \in DOMAIN transitions : IsReopenTransition(transitions[n])}
    IN  IF found = {} THEN NoTransition
        ELSE transitions[CHOOSE n \in found : \A k \in found : n <= k].ID

JiraCall(op, ok, id) == [op |-> op, ok |-> ok, id |-> id]

ReopenInit ==
    /\ SyncIdle
    /\ codec = NoCodec
    /\ adapter \in {[op |-> "ReopenTicket", stage |-> "start", comment |-> c,
                     transitions |-> <<>>, calls |-> <<>>, err |-> ""] :
                       c \in {"", "c"}}

\* the comment is added first, when there is one
ReopenAddComment ==
    /\ adapter.op = "ReopenTicket"
    /\ adapter.stage = "start"
    /\ adapter.comment # ""
    /\ \E ok \in BOOLEAN :
          adapter' = [adapter EXCEPT
              !.calls = Append(@, JiraCall("AddComment", ok, NoTransition)),
              !.stage = IF ok THEN "commented" ELSE "returned",
              !.err = IF ok THEN "" ELSE "failed to add comment"]
    /\ UNCHANGED <<syncVars, codec>>

ReopenGetTransitions ==
    /\ adapter.op = "ReopenTicket"
    /\ \/ adapter.stage = "commented"
       \/ adapter.stage = "start" /\ adapter.comment = ""
    /\ \E ok \in BOOLEAN, transitions \in TransitionLists :
          /\ ~ok => transitions = <<>>
          /\ adapter' = [adapter EXCEPT
                !.calls = Append(@, JiraCall("getTransitions", ok, NoTransition)),
                !.transitions = transitions,
                !.stage = IF ok THEN "fetched" ELSE "returned",
                !.err = IF ok THEN "" ELSE "failed to get transitions"]
    /\ UNCHANGED <<syncVars, codec>>

ReopenDoTransition ==
    /\ adapter.op = "ReopenTicket"
    /\ adapter.stage = "fetched"
    /\ LET transitionID == FirstReopenTransition(adapter.transitions)
       IN  IF transitionID = NoTransition
           THEN adapter' = [adapter EXCEPT !.stage = "returned",
                                           !.err = "no reopen transition found"]
           ELSE \E ok \in BOOLEAN :
                   adapter' = [adapter EXCEPT
                       !.calls = Append(@, JiraCall("doTransition", ok, transitionID)),
                       !.stage = "returned",
                       !.err = IF ok THEN "" ELSE "failed to transition"]
    /\ UNCHANGED <<syncVars, codec>>

ReopenNext ==
    \/ ReopenAddComment
    \/ ReopenGetTransitions
    \/ ReopenDoTransition

ReopenSpec == ReopenInit /\ [][ReopenNext]_vars

\* ------------------------------ service discovery: serviceToDiscovered

MaxPorts == 2

\* the default Alertmanager port
DefaultPort == 9093

PortNames == {"web", "http", "metrics", ""}
PortNumbers == {DefaultPort, 8080, 9090}
PreferredPorts == {0, DefaultPort, 8080}
Namespaces == {"monitoring", "default"}

ServicePort(choice) == [Name |-> choice[1], Port |-> choice[2]]

Services ==
    {[Name |-> "alertmanager", Namespace |-> ns,
      Ports |-> [n \in DOMAIN l |-> ServicePort(l[n])]] :
        ns \in Namespaces, l \in SeqsUpTo(PortNames \X PortNumbers, MaxPorts)}

ServiceURL(name, namespace, port) ==
    <<"http://", name, ".", namespace, ".svc.cluster.local:", port>>

\* the port serviceToDiscovered settles on
DiscoveredPort(ports, preferredPort) ==
    LET port  == IF preferredPort = 0 THEN DefaultPort ELSE preferredPort
        found == {n \in DOMAIN ports :
                     \/ ports[n].Port = port
                     \/ ports[n].Name = "web"
                     \/ ports[n].Name = "http"}
    IN  IF found # {}
        THEN ports[CHOOSE n \in found : \A k \in found : n <= k].Port
        ELSE IF Len(ports) > 0 THEN ports[1].Port
        ELSE port

serviceToDiscovered(svc, preferredPort) ==
    [Name |-> svc.Name, Namespace |-> svc.Namespace,
     URL |-> ServiceURL(svc.Name, svc.Namespace,
                        DiscoveredPort(svc.Ports, preferredPort))]

DiscoveryInit ==
    /\ SyncIdle
    /\ codec = NoCodec
    /\ adapter \in {[op |-> "serviceToDiscovered", stage |-> "input", svc |-> s,
                     preferredPort |-> p, discovered |-> <<>>] :
                       s \in Services, p \in PreferredPorts}

DiscoveryCall ==
    /\ adapter.op = "serviceToDiscovered"
    /\ adapter.stage = "input"
    /\ adapter' = [adapter EXCEPT
          !.stage = "returned",
          !.discovered = serviceToDiscovered(adapter.svc, adapter.preferredPort)]
    /\ UNCHANGED <<syncVars, codec>>

DiscoveryNext == DiscoveryCall

DiscoverySpec == DiscoveryInit /\ [][DiscoveryNext]_vars

\* ------------------------------ Prometheus adapter: ExtendSilence

MaxExtensions == 2

\* the comments of the silences that are extended: without a coupling
\* marker, and with one
ExtendComments ==
    {<<>>, <<"a">>, SilenceMarker(BackendPrefix) \o <<"a">>,
     SilenceMarker(BackendPrefix) \o <<"a", "\n", "a">>}

StoredSilences ==
    {[ID |-> 1, Status |-> [present |-> TRUE, State |-> "active"],
      Comment |-> c, CreatedBy |-> by, StartsAt |-> 0, EndsAt |-> 1,
      Matchers |-> ms] :
        c \in ExtendComments, by \in {"alice", "silence-manager"},
        ms \in {<<>>, <<Matcher("l", "x", FALSE, TRUE)>>}}

NewEndTimes == {2, 3}

\* the silence UpdateSilence submits: convertToPromSilence, then the ID
UpdateSilence(silence) ==
    [ID |-> silence.ID, CreatedBy |-> silence.CreatedBy,
     Comment |-> convertToPromSilence(BackendPrefix, silence.Comment,
                                      silence.TicketRef),
     StartsAt |-> silence.StartsAt, EndsAt |-> silence.EndsAt,
     Matchers |-> silence.Matchers]

ExtendInit ==
    /\ SyncIdle
    /\ codec = NoCodec
    /\ adapter \in {[op |-> "ExtendSilence", stage |-> "stored", stored |-> ps,
                     fetched |-> ps, submitted |-> ps, newEndTime |-> ps.EndsAt,
                     extensions |-> 0] : ps \in StoredSilences}

\* ExtendSilence: GetSilence, the new end time, UpdateSilence; the backend
\* stores what is submitted
ExtendCall ==
    /\ adapter.op = "ExtendSilence"
    /\ adapter.extensions < MaxExtensions
    /\ \E t \in NewEndTimes, outcome \in {"ok", "get_failed", "update_failed"} :
        LET silence   == [convertFromPromSilence(adapter.stored) EXCEPT !.EndsAt = t]
            submitted == UpdateSilence(silence)
        IN  adapter' =
              IF outcome = "ok"
              THEN [adapter EXCEPT
                      !.stage = "extended",
                      !.fetched = adapter.stored,
                      !.submitted = submitted,
                      !.newEndTime = t,
                      !.stored = [Status |-> adapter.stored.Status] @@ submitted,
                      !.extensions = @ + 1]
              ELSE [adapter EXCEPT !.stage = outcome, !.extensions = @ + 1]
    /\ UNCHANGED <<syncVars, codec>>

ExtendNext == ExtendCall

ExtendSpec == ExtendInit /\ [][ExtendNext]_vars

\* =================================================================
\* LoadConfig: the synchronization settings read from the environment,
\* and a run configured with them.  Times are counted in hours.
\* =================================================================

\* the defaults of the three durations, in hours
DefaultExpiryThresholdHours == 24
DefaultExtensionDurationHours == 168
DefaultSilenceDurationHours == 168

\* time.Hour, in the unit the clock of the model counts
Hour == 1

\* what the environment sets the synchronization variables to; a value that
\* strconv cannot parse is the same as no value
EnvValues ==
    [SYNC_EXPIRY_THRESHOLD_HOURS |-> 4,
     SYNC_EXTENSION_DURATION_HOURS |-> 1,
     SYNC_CHECK_ALERTS |-> FALSE]

\* the environments of the process: any of the variables set or not
Environments ==
    {[k \in set |-> EnvValues[k]] : set \in SUBSET (DOMAIN EnvValues)}

getEnvInt(env, key, defaultValue) ==
    IF key \in DOMAIN env THEN env[key] ELSE defaultValue

getEnvBool(env, key, defaultValue) ==
    IF key \in DOMAIN env THEN env[key] ELSE defaultValue

\* the Sync part of the configuration LoadConfig returns; no check is made
\* of the durations
LoadConfig(env) ==
    [ExpiryThresholdHours |->
        getEnvInt(env, "SYNC_EXPIRY_THRESHOLD_HOURS", DefaultExpiryThresholdHours),
     ExtensionDurationHours |->
        getEnvInt(env, "SYNC_EXTENSION_DURATION_HOURS", DefaultExtensionDurationHours),
     DefaultSilenceDurationHours |->
        getEnvInt(env, "SYNC_DEFAULT_SILENCE_DURATION_HOURS", DefaultSilenceDurationHours),
     CheckAlerts |-> getEnvBool(env, "SYNC_CHECK_ALERTS", TRUE)]

\* GetSyncDurations, and the SyncConfig main builds of its results
LoadedSyncConfig(cfg) ==
    [ExpiryThreshold |-> cfg.ExpiryThresholdHours * Hour,
     ExtensionDuration |-> cfg.ExtensionDurationHours * Hour,
     DefaultSilenceDuration |-> cfg.DefaultSilenceDurationHours * Hour,
     CheckAlerts |-> cfg.CheckAlerts]

\* a run of the process main starts
LoadedInit ==
    InitWith({LoadedSyncConfig(LoadConfig(env)) : env \in Environments},
             EmptyResult)

LoadedSpec == LoadedInit /\ [][Next]_vars

\* =================================================================
\* A run followed by a second run: the scheduler starts the process again
\* as soon as a run has returned, against the backends the first run left.
\* =================================================================

TwoRunInit == InitAfter(EmptyResult)

\* a ticket fetch of the loop over the alerts has failed
DetectorFetchFailed ==
    \E k \in 1..Len(calls) :
        calls[k].op = "GetTicket" /\ calls[k].phase = "alert" /\ ~calls[k].ok

\* what is kept of the first run: what it returned, the failures injected
\* in it, whether it fetched the alerts, and whether a ticket fetch of its
\* detector failed
FirstRun ==
    [op |-> "Sync", stage |-> "second", result |-> result,
     syncErr |-> syncErr, injected |-> injected,
     sawAlerts |-> \E k \in 1..Len(calls) :
                        calls[k].op = "GetAlerts" /\ calls[k].ok,
     fetchFailed |-> DetectorFetchFailed]

\* the second run starts: Sync, up to the return of ListSilences; the
\* failures injected are counted over both runs
SyncAgain ==
    /\ pc = "done"
    /\ adapter = NoAdapter
    /\ adapter' = FirstRun
    /\ result' = NewSyncResult(result)
    /\ \E fail \in BOOLEAN :
        /\ injected + BoolToInt(fail) <= MaxFailures
        /\ injected' = injected + BoolToInt(fail)
        /\ calls' = <<Call("ListSilences", ~fail, "list", 0)>>
        /\ syncErr' = ListReturn(fail).syncErr
        /\ pc' = ListReturn(fail).pc
        /\ listed' = ListReturn(fail).listed
    /\ i' = 1
    /\ j' = 1
    /\ allAlerts' = <<>>
    /\ UNCHANGED <<silences, alerts, tickets, comments, config, codec, now>>

TwoRunNext ==
    \/ Next
    \/ SyncAgain

TwoRunSpec == TwoRunInit /\ [][TwoRunNext]_vars

\* =================================================================
\* The silence checkRefiredAlerts builds for a refired alert, for alerts
\* with any labels beside the ticket label.
\* =================================================================

\* the labels an alert may carry, and their values
LabelValues ==
    [ticket |-> "T1", silence_id |-> "s1", alertname |-> "Down",
     job |-> "api", instance |-> "h1", severity |-> "page", team |-> "ops"]

\* the alerts that carry a ticket label: any of the other labels with it
RefiredAlerts ==
    {[Labels |-> [n \in names \cup {"ticket"} |->
                    IF n = "ticket" THEN key ELSE LabelValues[n]]] :
        names \in SUBSET (DOMAIN LabelValues \ {"ticket"}), key \in TicketKeys}

RefiredInit ==
    /\ SyncIdle
    /\ codec = NoCodec
    /\ adapter \in {[op |-> "CreateSilence", stage |-> "refired", alert |-> a,
                     silence |-> NoSilence] : a \in RefiredAlerts}

\* the detector, past the reopening of the ticket: it builds the silence
\* and hands it to CreateSilence
RefiredCreate ==
    /\ adapter.op = "CreateSilence"
    /\ adapter.stage = "refired"
    /\ adapter' = [adapter EXCEPT
            !.stage = "created",
            !.silence = NewSilence(adapter.alert.Labels["ticket"], adapter.alert)]
    /\ UNCHANGED <<syncVars, codec>>

RefiredNext == RefiredCreate

RefiredSpec == RefiredInit /\ [][RefiredNext]_vars

\* =================================================================
\* Two runs that overlap against the same backends: each handles the same
\* firing alert in checkRefiredAlerts, and their port calls interleave.
\* A run is at a port call: GetTicket, GetSilence, ReopenTicket,
\* CreateSilence, AddComment, or past the alert.
\* =================================================================

Runs == {1, 2}

\* a run that has not yet looked at the alert
NewRun ==
    [at |-> "GetTicket", status |-> "", outcome |-> "", reopened |-> FALSE,
     created |-> "", othersDone |-> FALSE, othersReopened |-> FALSE]

OverlapInit ==
    /\ silences \in {[id \in AllSilenceIds |-> IF id = "s1" THEN s ELSE NoSilence] :
                        s \in {NoSilence, TypeSilence("s1", "T1", 0),
                               TypeSilence("s1", "T1", 1)}}
    /\ tickets \in {[k \in TicketKeys |-> IF k = "T1" THEN st ELSE StatusOpen] :
                        st \in TicketStatus}
    /\ alerts = <<>>
    /\ comments = [k \in TicketKeys |-> <<>>]
    /\ config = [ExpiryThreshold |-> 2, ExtensionDuration |-> 3,
                 DefaultSilenceDuration |-> 4, CheckAlerts |-> TRUE]
    /\ now = 0
    /\ pc = "idle"
    /\ listed = <<>>
    /\ i = 1
    /\ allAlerts = <<>>
    /\ j = 1
    /\ result = EmptyResult
    /\ syncErr = FALSE
    /\ calls = <<>>
    /\ injected = 0
    /\ codec = NoCodec
    /\ adapter \in {[op |-> "Overlap", stage |-> "running", alert |-> a,
                     run |-> [r \in Runs |-> NewRun]] :
                        a \in {[Labels |-> Labels2], [Labels |-> Labels3]}}

\* the run has left the alert, with this outcome
Left(run, outcome) == [run EXCEPT !.at = "done", !.outcome = outcome]

overlapLocals == <<alerts, config, now, pc, listed, i, allAlerts, j, result,
                   syncErr, calls, injected, codec>>

\* tkt, err := GetTicket(ticketRef), and the test IsClosed(tkt)
OverlapGetTicket(r) ==
    LET run   == adapter.run[r]
        alert == adapter.alert
        key   == alert.Labels["ticket"]
        seen  == [run EXCEPT
                    !.status = tickets[key],
                    !.othersDone =
                        \A o \in Runs \ {r} : adapter.run[o].at = "done",
                    !.othersReopened =
                        \E o \in Runs \ {r} : adapter.run[o].reopened]
    IN  /\ adapter.op = "Overlap"
        /\ run.at = "GetTicket"
        /\ \E fail \in BOOLEAN :
            adapter' = [adapter EXCEPT !.run[r] =
                IF fail THEN Left(run, "fetch_failed")
                ELSE IF ~IsClosed(tickets[key]) THEN Left(seen, "not_closed")
                ELSE IF "silence_id" \in DOMAIN alert.Labels
                THEN [seen EXCEPT !.at = "GetSilence"]
                ELSE [seen EXCEPT !.at = "ReopenTicket"]]
        /\ UNCHANGED <<silences, tickets, comments, overlapLocals>>

\* silence, err := GetSilence(silenceID), and the test of its end time
OverlapGetSilence(r) ==
    LET run == adapter.run[r]
        id  == adapter.alert.Labels["silence_id"]
    IN  /\ adapter.op = "Overlap"
        /\ run.at = "GetSilence"
        /\ \E fail \in BOOLEAN :
            adapter' = [adapter EXCEPT !.run[r] =
                IF ~fail /\ silences[id].exists /\ StillActive(silences[id])
                THEN Left(run, "covered")
                ELSE [run EXCEPT !.at = "ReopenTicket"]]
        /\ UNCHANGED <<silences, tickets, comments, overlapLocals>>

\* ReopenTicket(tkt.Key, reopenMsg)
OverlapReopenTicket(r) ==
    LET run == adapter.run[r]
        key == adapter.alert.Labels["ticket"]
    IN  /\ adapter.op = "Overlap"
        /\ run.at = "ReopenTicket"
        /\ \E outcome \in ReopenOutcomes, post \in ReopenedStatuses :
            /\ outcome # "ok" => post = StatusReopened
            /\ comments' = IF outcome = "comment_failed" THEN comments
                           ELSE AddComment(comments, key,
                                    CommentText("refired", "", -1))
            /\ tickets' = IF outcome = "ok" THEN [tickets EXCEPT ![key] = post]
                          ELSE tickets
            /\ adapter' = [adapter EXCEPT !.run[r] =
                    IF outcome = "ok"
                    THEN [run EXCEPT !.at = "CreateSilence", !.reopened = TRUE]
                    ELSE Left(run, "reopen_failed")]
        /\ UNCHANGED <<silences, overlapLocals>>

\* silenceID, err := CreateSilence(newSilence)
OverlapCreateSilence(r) ==
    LET run == adapter.run[r]
        key == adapter.alert.Labels["ticket"]
    IN  /\ adapter.op = "Overlap"
        /\ run.at = "CreateSilence"
        /\ \E fail \in BOOLEAN :
            /\ silences' = IF fail THEN silences
                           ELSE CreateSilence(silences, NewSilence(key, adapter.alert))
            /\ adapter' = [adapter EXCEPT !.run[r] =
                    IF fail THEN Left(run, "create_failed")
                    ELSE [run EXCEPT !.at = "AddComment",
                                     !.created = NextSilenceId(silences)]]
        /\ UNCHANGED <<tickets, comments, overlapLocals>>

\* AddComment(tkt.Key, "New silence created: ..."); a failure is logged
OverlapAddComment(r) ==
    LET run == adapter.run[r]
        key == adapter.alert.Labels["ticket"]
    IN  /\ adapter.op = "Overlap"
        /\ run.at = "AddComment"
        /\ \E fail \in BOOLEAN :
            comments' = IF fail THEN comments
                        ELSE AddComment(comments, key,
                                CommentText("created", run.created, -1))
        /\ adapter' = [adapter EXCEPT !.run[r] = Left(run, "created")]
        /\ UNCHANGED <<silences, tickets, overlapLocals>>

OverlapNext ==
    \E r \in Runs :
        \/ OverlapGetTicket(r)
        \/ OverlapGetSilence(r)
        \/ OverlapReopenTicket(r)
        \/ OverlapCreateSilence(r)
        \/ OverlapAddComment(r)

OverlapSpec == OverlapInit /\ [][OverlapNext]_vars

\* =================================================================
\* mapJiraStatus: the status name Jira reports, a sequence of characters,
\* mapped to the status of the ticket; and processSilence for a silence
\* near its expiry that is coupled to the ticket fetched.
\* =================================================================

\* status names of Jira workflows
JiraWords ==
    {<<"O", "p", "e", "n">>,
     <<"T", "o", " ", "D", "o">>,
     <<"I", "n", " ", "P", "r", "o", "g", "r", "e", "s", "s">>,
     <<"I", "n", " ", "R", "e", "v", "i", "e", "w">>,
     <<"R", "e", "s", "o", "l", "v", "e", "d">>,
     <<"D", "o", "n", "e">>,
     <<"C", "l", "o", "s", "e", "d">>,
     <<"R", "e", "o", "p", "e", "n", "e", "d">>,
     <<"B", "l", "o", "c", "k", "e", "d">>}

\* the names a ticket may be in: a word, or two words joined
JiraStatusNames ==
    JiraWords \cup {w \o <<" ">> \o v : w \in JiraWords, v \in JiraWords}

\* strings.ToLower, of one character and of a text
LowerChar(c) ==
    CASE c = "B" -> "b"
      [] c = "C" -> "c"
      [] c = "D" -> "d"
      [] c = "I" -> "i"
      [] c = "O" -> "o"
      [] c = "P" -> "p"
      [] c = "R" -> "r"
      [] c = "T" -> "t"
      [] OTHER -> c

LowerText(text) == [n \in DOMAIN text |-> LowerChar(text[n])]

\* strings.Contains
Contains(text, sub) ==
    \E n \in 0..(Len(text) - Len(sub)) :
        \A k \in 1..Len(sub) : text[n + k] = sub[k]

Key_open == <<"o", "p", "e", "n">>
Key_to_do == <<"t", "o", " ", "d", "o">>
Key_in_progress == <<"i", "n", " ", "p", "r", "o", "g", "r", "e", "s", "s">>
Key_in_review == <<"i", "n", " ", "r", "e", "v", "i", "e", "w">>
Key_resolved == <<"r", "e", "s", "o", "l", "v", "e", "d">>
Key_done == <<"d", "o", "n", "e">>
Key_closed == <<"c", "l", "o", "s", "e", "d">>
Key_reopen == <<"r", "e", "o", "p", "e", "n">>

\* the case for 'reopen' tried before the case for 'open'
mapJiraStatusReopenFirst(name) ==
    LET status == LowerText(name)
    IN  IF Contains(status, Key_reopen) THEN StatusReopened
        ELSE IF Contains(status, Key_open) \/ Contains(status, Key_to_do)
        THEN StatusOpen
        ELSE IF Contains(status, Key_in_progress) \/ Contains(status, Key_in_review)
        THEN StatusInProgress
        ELSE IF Contains(status, Key_resolved) \/ Contains(status, Key_done)
        THEN StatusResolved
        ELSE IF Contains(status, Key_closed) THEN StatusClosed
        ELSE StatusOpen

\* the switch of mapJiraStatus: the first case that matches
mapJiraStatus(name) ==
    LET status == LowerText(name)
    IN  IF Contains(status, Key_open) \/ Contains(status, Key_to_do)
        THEN StatusOpen
        ELSE IF Contains(status, Key_in_progress) \/ Contains(status, Key_in_review)
        THEN StatusInProgress
        ELSE IF Contains(status, Key_resolved) \/ Contains(status, Key_done)
        THEN StatusResolved
        ELSE IF Contains(status, Key_closed) THEN StatusClosed
        ELSE IF Contains(status, Key_reopen) THEN StatusReopened
        ELSE StatusOpen

\* no call of processSilence fails
NoSilenceFailure == [get |-> FALSE, write |-> FALSE, comment |-> FALSE]

\* a silence one hour from its end, coupled to a ticket whose Jira status
\* has this name
StatusInit ==
    /\ silences = [id \in AllSilenceIds |->
                    IF id = "s1" THEN TypeSilence("s1", "T1", 1) ELSE NoSilence]
    /\ tickets = [k \in TicketKeys |-> StatusOpen]
    /\ alerts = <<>>
    /\ comments = [k \in TicketKeys |-> <<>>]
    /\ config = [ExpiryThreshold |-> 2, ExtensionDuration |-> 3,
                 DefaultSilenceDuration |-> 4, CheckAlerts |-> FALSE]
    /\ now = 0
    /\ pc = "idle"
    /\ listed = <<>>
    /\ i = 1
    /\ allAlerts = <<>>
    /\ j = 1
    /\ result = EmptyResult
    /\ syncErr = FALSE
    /\ calls = <<>>
    /\ injected = 0
    /\ codec = NoCodec
    /\ adapter \in {[op |-> "mapJiraStatus", stage |-> "reported", name |-> n,
                     status |-> "", extended |-> 0, deleted |-> 0] :
                        n \in JiraStatusNames}

statusLocals == <<alerts, config, now, pc, listed, i, allAlerts, j, result,
                  syncErr, calls, injected, codec>>

\* GetTicket of the Jira adapter: the ticket has the status the name maps to
StatusGetTicket ==
    /\ adapter.op = "mapJiraStatus"
    /\ adapter.stage = "reported"
    /\ adapter' = [adapter EXCEPT !.stage = "fetched",
                                  !.status = mapJiraStatus(adapter.name)]
    /\ tickets' = [tickets EXCEPT !["T1"] = mapJiraStatus(adapter.name)]
    /\ UNCHANGED <<silences, comments, statusLocals>>

\* processSilence for the silence coupled to the ticket
StatusProcessSilence ==
    /\ adapter.op = "mapJiraStatus"
    /\ adapter.stage = "fetched"
    /\ \E o \in {processSilence(1, silences["s1"], NoSilenceFailure)} :
        /\ silences' = o.silences
        /\ comments' = o.comments
        /\ adapter' = [adapter EXCEPT !.stage = "processed",
                                      !.extended = o.extended,
                                      !.deleted = o.deleted]
    /\ UNCHANGED <<tickets, statusLocals>>

StatusNext ==
    \/ StatusGetTicket
    \/ StatusProcessSilence

StatusSpec == StatusInit /\ [][StatusNext]_vars

\* =================================================================
\* main: the run, the lines it logs about the result, and the exit
\* status of the process.
\* =================================================================

\* log.Printf with the text and the number printed
LogLine(text, n) == [text |-> text, n |-> n]

\* if err != nil { log.Printf("Synchronization completed with errors ...") }
LogSyncError(err) ==
    IF err THEN <<LogLine("Synchronization completed with errors", 0)>>
    ELSE <<>>

\* the counters of the result, logged after every run
LogResults(r) ==
    << LogLine("Silences extended", r.SilencesExtended),
       LogLine("Silences deleted", r.SilencesDeleted),
       LogLine("Silences created", r.SilencesCreated),
       LogLine("Tickets reopened", r.TicketsReopened),
       LogLine("Errors", Len(r.Errors)) >>

\* the errors of the result, one line each, or the closing line
LogOutcome(r) ==
    IF Len(r.Errors) > 0
    THEN <<LogLine("Errors encountered", 0)>>
            \o [n \in 1..Len(r.Errors) |-> LogLine("error", n)]
    ELSE <<LogLine("Synchronization completed successfully", 0)>>

\* os.Exit(1) when result.Errors is not empty; the return of main otherwise
ExitStatus(r, err) == IF Len(r.Errors) > 0 THEN 1 ELSE 0

\* main, from the return of Sync to the end of the process
MainExit ==
    /\ pc = "done"
    /\ adapter = NoAdapter
    /\ adapter' = [op |-> "main", stage |-> "exited",
                   log |-> LogSyncError(syncErr) \o LogResults(result)
                               \o LogOutcome(result),
                   status |-> ExitStatus(result, syncErr)]
    /\ UNCHANGED <<silences, alerts, tickets, comments, config, codec, now,
                   pc, listed, i, allAlerts, j, result, syncErr, calls,
                   injected>>

MainNext ==
    \/ Next
    \/ MainExit

MainSpec == Init /\ [][MainNext]_vars

\* =================================================================
\* Properties
\* =================================================================

\* the port calls the step being taken adds to the log
NewCalls == SubSeq(calls', Len(calls) + 1, Len(calls'))

\* a step that runs processSilence for listed[i]
SilenceStep == pc = "silences" /\ i <= Len(listed) /\ i' > i /\ calls' # calls

\* a step that runs the loop body of checkRefiredAlerts for allAlerts[j]
AlertStep == pc = "alerts" /\ j <= Len(allAlerts) /\ j' > j

OpIndexes(cs, op) == {k \in DOMAIN cs : cs[k].op = op}

OpCount(cs, op) == Cardinality(OpIndexes(cs, op))

OkCount(cs, op) == Cardinality({k \in OpIndexes(cs, op) : cs[k].ok})

AllOk(cs, op) == \A k \in OpIndexes(cs, op) : cs[k].ok

\* the status of the ticket a step fetched, "" when the fetch failed
FetchedStatus(cs) ==
    IF \E k \in OpIndexes(cs, "GetTicket") : cs[k].ok
    THEN cs[CHOOSE k \in OpIndexes(cs, "GetTicket") : cs[k].ok].status
    ELSE ""

SilenceWrites == {"DeleteSilence", "ExtendSilence", "UpdateSilence"}

Counters(r) == <<r.SilencesExtended, r.SilencesDeleted, r.SilencesCreated,
                r.TicketsReopened>>

ErrorsFor(wrap, id) ==
    Cardinality({k \in DOMAIN result.Errors :
                    result.Errors[k] = WrapError(wrap, id)})

\* C1: a listed silence with an empty ticket reference is left alone by the
\* run: no DeleteSilence, ExtendSilence, UpdateSilence or CreateSilence call
\* names it, no ticket is fetched for it, no error is recorded for it, and
\* it stays in the backend as it was listed.
C1_UncoupledUntouched ==
    \A n \in DOMAIN listed :
        listed[n].TicketRef = "" =>
            /\ \A k \in DOMAIN calls :
                  calls[k].sid = listed[n].ID =>
                      calls[k].op \notin SilenceWrites
                                          \cup {"CreateSilence", "GetTicket"}
            /\ \A k \in DOMAIN calls :
                  ~(calls[k].phase = "silence" /\ calls[k].item = n)
            /\ ErrorsFor("silence", listed[n].ID) = 0
            /\ silences[listed[n].ID] = listed[n]

\* a run listed an uncoupled silence and wrote to the coupled one after it
C1_Witness ==
    /\ pc = "done"
    /\ Len(listed) = 2
    /\ listed[1].TicketRef = ""
    /\ result.SilencesDeleted + result.SilencesExtended = 1

\* C2 as stated: a listed silence whose ticket classifies as resolved gets
\* exactly one DeleteSilence call and no ExtendSilence call, SilencesDeleted
\* increases by exactly one and one comment is added to the ticket.
C2_Original ==
    [][(SilenceStep /\ FetchedStatus(NewCalls) = StatusResolved) =>
          /\ OpCount(NewCalls, "DeleteSilence") = 1
          /\ OpCount(NewCalls, "ExtendSilence") = 0
          /\ result'.SilencesDeleted = result.SilencesDeleted + 1
          /\ Len(comments'[listed[i].TicketRef])
                = Len(comments[listed[i].TicketRef]) + 1]_vars

\* C2 (amended): a listed silence whose ticket is fetched and classifies as
\* resolved gets exactly one DeleteSilence call and no ExtendSilence call,
\* whatever its time to expiry.  When the deletion succeeds SilencesDeleted
\* increases by exactly one and exactly one AddComment is issued on the
\* ticket, which adds the comment when it succeeds; when the deletion fails
\* the counters are unchanged and no comment is attempted.
C2_ResolvedDeletes ==
    [][(SilenceStep /\ FetchedStatus(NewCalls) = StatusResolved) =>
          LET key == listed[i].TicketRef
              del == OpIndexes(NewCalls, "DeleteSilence")
              cmt == OpIndexes(NewCalls, "AddComment")
          IN  /\ Cardinality(del) = 1
              /\ \A k \in del : NewCalls[k].sid = listed[i].ID
              /\ OpCount(NewCalls, "ExtendSilence") = 0
              /\ result'.SilencesExtended = result.SilencesExtended
              /\ IF AllOk(NewCalls, "DeleteSilence")
                 THEN /\ result'.SilencesDeleted = result.SilencesDeleted + 1
                      /\ ~silences'[listed[i].ID].exists
                      /\ Cardinality(cmt) = 1
                      /\ \A k \in cmt : NewCalls[k].key = key
                      /\ Len(comments'[key]) = Len(comments[key])
                            + OkCount(NewCalls, "AddComment")
                 ELSE /\ result'.SilencesDeleted = result.SilencesDeleted
                      /\ silences' = silences
                      /\ cmt = {}
                      /\ comments' = comments]_vars

\* a silence far from expiry was deleted and the comment was added
C2_Witness ==
    /\ pc = "done"
    /\ \E k \in OpIndexes(calls, "DeleteSilence") :
          /\ calls[k].ok
          /\ listed[calls[k].item].EndsAt - now > config.ExpiryThreshold
          /\ Len(comments[listed[calls[k].item].TicketRef]) = 1
    /\ result.SilencesDeleted = 1

\* C3 as stated: a listed silence whose ticket classifies as open and whose
\* time to expiry is below the threshold gets exactly one ExtendSilence call
\* to now + extensionDuration and no delete, and SilencesExtended increases
\* by exactly one.
C3_Original ==
    [][(/\ SilenceStep
        /\ FetchedStatus(NewCalls) \in {StatusOpen, StatusInProgress}
        /\ listed[i].EndsAt - now < config.ExpiryThreshold) =>
          /\ OpCount(NewCalls, "ExtendSilence") = 1
          /\ \A k \in OpIndexes(NewCalls, "ExtendSilence") :
                NewCalls[k].endsAt = now + config.ExtensionDuration
          /\ OpCount(NewCalls, "DeleteSilence") = 0
          /\ result'.SilencesExtended = result.SilencesExtended + 1]_vars

\* C3 (amended): a listed silence whose ticket is fetched and classifies as
\* open (open or in progress) and whose time to expiry is below the
\* threshold, be it positive or not, gets exactly one ExtendSilence call to
\* now + extensionDuration and no delete.  When the extension succeeds
\* SilencesExtended increases by exactly one and the silence ends at the new
\* time; when it fails the counters and the silence are unchanged.
C3_OpenExtends ==
    [][(/\ SilenceStep
        /\ FetchedStatus(NewCalls) \in {StatusOpen, StatusInProgress}
        /\ listed[i].EndsAt - now < config.ExpiryThreshold) =>
          LET ext == OpIndexes(NewCalls, "ExtendSilence")
              id  == listed[i].ID
          IN  /\ Cardinality(ext) = 1
              /\ \A k \in ext :
                    /\ NewCalls[k].sid = id
                    /\ NewCalls[k].endsAt = now + config.ExtensionDuration
              /\ OpCount(NewCalls, "DeleteSilence") = 0
              /\ result'.SilencesDeleted = result.SilencesDeleted
              /\ IF AllOk(NewCalls, "ExtendSilence")
                 THEN /\ result'.SilencesExtended = result.SilencesExtended + 1
                      /\ silences'[id].exists
                      /\ silences'[id].EndsAt = now + config.ExtensionDuration
                 ELSE /\ result'.SilencesExtended = result.SilencesExtended
                      /\ silences' = silences]_vars

\* a silence that had expired was extended, and the run went on
C3_Witness ==
    /\ pc = "done"
    /\ result.SilencesExtended = 1
    /\ \E k \in OpIndexes(calls, "ExtendSilence") :
          /\ calls[k].ok
          /\ listed[calls[k].item].EndsAt - now <= 0
          /\ silences[calls[k].sid].EndsAt = now + config.ExtensionDuration

\* C4: a listed silence whose ticket classifies as open and whose time to
\* expiry is at least the threshold (the threshold itself included) is not
\* written, no comment is added to its ticket, and no counter changes.
C4_OpenFarFromExpiry ==
    [][(/\ SilenceStep
        /\ FetchedStatus(NewCalls) \in {StatusOpen, StatusInProgress}
        /\ listed[i].EndsAt - now >= config.ExpiryThreshold) =>
          /\ \A k \in DOMAIN NewCalls :
                NewCalls[k].op \in {"RecordSilenceCheck", "RecordSilenceExpiry",
                                    "GetTicket"}
          /\ silences' = silences
          /\ comments' = comments
          /\ Counters(result') = Counters(result)
          /\ result'.Errors = result.Errors]_vars

\* an open ticket's silence exactly at the threshold was processed
C4_Witness ==
    /\ pc = "done"
    /\ \E k \in OpIndexes(calls, "GetTicket") :
          /\ calls[k].phase = "silence"
          /\ calls[k].ok
          /\ calls[k].status = StatusOpen
          /\ listed[calls[k].item].EndsAt - now = config.ExpiryThreshold

\* C5: a listed silence whose ticket is closed or reopened is neither
\* deleted nor extended by the per-silence step, whatever its time to expiry.
C5_ClosedOrReopenedUntouched ==
    [][(/\ SilenceStep
        /\ FetchedStatus(NewCalls) \in {StatusClosed, StatusReopened}) =>
          /\ OpCount(NewCalls, "DeleteSilence") = 0
          /\ OpCount(NewCalls, "ExtendSilence") = 0
          /\ silences' = silences
          /\ result'.SilencesDeleted = result.SilencesDeleted
          /\ result'.SilencesExtended = result.SilencesExtended]_vars

\* the silence of a reopened ticket was processed after it had expired
C5_Witness ==
    /\ pc = "done"
    /\ \E k \in OpIndexes(calls, "GetTicket") :
          /\ calls[k].phase = "silence"
          /\ calls[k].status = StatusReopened
          /\ listed[calls[k].item].EndsAt - now <= 0

\* C6: in a run no silence id gets more than one write call (DeleteSilence,
\* ExtendSilence, UpdateSilence), so none gets both a delete and an extend.
C6_AtMostOneWrite ==
    \A id \in AllSilenceIds :
        /\ Cardinality({k \in DOMAIN calls :
                          calls[k].op \in SilenceWrites /\ calls[k].sid = id}) <= 1
        /\ ~(\E k, m \in DOMAIN calls :
                /\ calls[k].op = "DeleteSilence" /\ calls[k].sid = id
                /\ calls[m].op = "ExtendSilence" /\ calls[m].sid = id)

\* a run wrote two silences, one write each
C6_Witness ==
    /\ pc = "done"
    /\ OpCount(calls, "DeleteSilence") = 1
    /\ OpCount(calls, "ExtendSilence") = 1

\* C7: when ListSilences fails, Sync returns an error and a result with
\* four zero counters and no errors, and ListSilences is the only port call
\* of the run.
C7_ListFailureIsFatal ==
    (pc # "idle" /\ ~calls[1].ok) =>
        /\ calls[1].op = "ListSilences"
        /\ pc = "done"
        /\ syncErr
        /\ Counters(result) = <<0, 0, 0, 0>>
        /\ result.Errors = <<>>
        /\ Len(calls) = 1

\* ListSilences failed while the backend held a silence to delete
C7_Witness ==
    /\ pc = "done"
    /\ ~calls[1].ok
    /\ config.CheckAlerts
    /\ silences["s1"].TicketRef = "T1"
    /\ tickets["T1"] = StatusResolved

\* the calls processSilence made for the n-th listed silence
ItemCalls(n) == {k \in DOMAIN calls : calls[k].phase = "silence" /\ calls[k].item = n}

ItemFailed(n) ==
    \E k \in ItemCalls(n) :
        /\ calls[k].op \in {"GetTicket", "DeleteSilence", "ExtendSilence"}
        /\ ~calls[k].ok

\* C8: at the end of a run in which ListSilences succeeded, every listed
\* silence with a ticket reference has had its ticket fetched exactly once,
\* also when the fetch, the delete or the extend of another one failed;
\* SilencesDeleted and SilencesExtended count the calls that succeeded; the
\* error list holds exactly one error with the id of each silence whose
\* fetch, delete or extend failed and none for the others; and Sync returns
\* no error.
C8_ItemFailureIsolated ==
    (pc = "done" /\ calls[1].ok) =>
        /\ ~syncErr
        /\ \A n \in DOMAIN listed :
              listed[n].TicketRef # "" =>
                  /\ Cardinality({k \in ItemCalls(n) :
                                    calls[k].op = "GetTicket"}) = 1
                  /\ ErrorsFor("silence", listed[n].ID)
                        = BoolToInt(ItemFailed(n))
        /\ result.SilencesDeleted = OkCount(calls, "DeleteSilence")
        /\ result.SilencesExtended = OkCount(calls, "ExtendSilence")

\* the first silence failed and the second was written after it
C8_Witness ==
    /\ pc = "done"
    /\ Len(listed) = 2
    /\ ItemFailed(1)
    /\ ~ItemFailed(2)
    /\ result.SilencesDeleted + result.SilencesExtended = 1
    /\ Len(result.Errors) = 1

\* C9: when the delete, the extend or the create of an item succeeds and
\* the AddComment after it fails, the counter of that mutation still
\* increases by one, no error is appended, and the loop moves on to the
\* next item.
C9_CommentFailureIgnored ==
    [][((SilenceStep \/ AlertStep)
        /\ \E k \in OpIndexes(NewCalls, "AddComment") : ~NewCalls[k].ok) =>
          /\ result'.Errors = result.Errors
          /\ result'.SilencesDeleted
                = result.SilencesDeleted + OkCount(NewCalls, "DeleteSilence")
          /\ result'.SilencesExtended
                = result.SilencesExtended + OkCount(NewCalls, "ExtendSilence")
          /\ result'.SilencesCreated
                = result.SilencesCreated + OkCount(NewCalls, "CreateSilence")
          /\ OkCount(NewCalls, "DeleteSilence") + OkCount(NewCalls, "ExtendSilence")
                + OkCount(NewCalls, "CreateSilence") = 1
          /\ IF pc = "silences" THEN i' = i + 1 /\ pc' = pc
                                ELSE j' = j + 1 /\ pc' = pc]_vars

\* the comment after an extension failed, and the next silence was handled
C9_Witness ==
    /\ pc = "done"
    /\ \E k \in OpIndexes(calls, "AddComment") :
          /\ ~calls[k].ok
          /\ calls[k].phase = "silence"
          /\ calls[k].item = 1
          /\ calls[k - 1].op = "ExtendSilence"
    /\ result.SilencesExtended = 1
    /\ result.Errors = <<>>
    /\ ItemCalls(2) # {}

\* the alert is not covered by an active silence: the step looked up no
\* silence, or the lookup failed, or the silence does not end in the future
NotCovered(cs) ==
    \A k \in OpIndexes(cs, "GetSilence") : ~cs[k].ok \/ cs[k].endsAt <= now

\* C10: for an alert with a ticket label whose ticket classifies as closed
\* and that no active silence covers, when every other backend call
\* succeeds, the detector calls ReopenTicket once on the ticket's key and
\* then CreateSilence once, with the key as ticket reference, start now and
\* end now + defaultSilenceDuration; TicketsReopened and SilencesCreated
\* each increase by one.
C10_RefiredAlertReopens ==
    [][(/\ AlertStep
        /\ FetchedStatus(NewCalls) \in {StatusClosed, StatusResolved}
        /\ NotCovered(NewCalls)
        /\ \A k \in DOMAIN NewCalls :
              NewCalls[k].op # "GetSilence" => NewCalls[k].ok) =>
          LET key == allAlerts[j].Labels["ticket"]
              re  == OpIndexes(NewCalls, "ReopenTicket")
              cr  == OpIndexes(NewCalls, "CreateSilence")
          IN  /\ Cardinality(re) = 1
              /\ Cardinality(cr) = 1
              /\ \A k \in re : NewCalls[k].key = key
              /\ \A k \in re : \A m \in cr : k < m
              /\ \A m \in cr :
                    /\ NewCalls[m].key = key
                    /\ NewCalls[m].startsAt = now
                    /\ NewCalls[m].endsAt = now + config.DefaultSilenceDuration
                    /\ silences'[NewCalls[m].sid].TicketRef = key
                    /\ silences'[NewCalls[m].sid].EndsAt
                          = now + config.DefaultSilenceDuration
              /\ result'.TicketsReopened = result.TicketsReopened + 1
              /\ result'.SilencesCreated = result.SilencesCreated + 1]_vars

\* a closed ticket was reopened for an alert whose silence ended just now
C10_Witness ==
    /\ pc = "done"
    /\ result.TicketsReopened = 1
    /\ result.SilencesCreated = 1
    /\ \E k \in OpIndexes(calls, "GetSilence") :
          /\ calls[k].ok
          /\ calls[k].endsAt = now
          /\ calls[k + 1].op = "ReopenTicket"
          /\ calls[k + 2].op = "CreateSilence"

\* the lookups of a silence that found it ending in the future
ActiveLookups(cs) ==
    {k \in OpIndexes(cs, "GetSilence") : cs[k].ok /\ cs[k].endsAt > now}

\* C11 as stated: the detector calls ReopenTicket or CreateSilence for an
\* alert only if the alert carries a ticket label, the ticket fetch
\* succeeded, the ticket classifies as closed, and the alert does not carry
\* a silence_id label whose silence exists with an end time in the future.
C11_Original ==
    [][(/\ AlertStep
        /\ OpCount(NewCalls, "ReopenTicket") + OpCount(NewCalls, "CreateSilence") > 0) =>
          LET labels == allAlerts[j].Labels
          IN  /\ "ticket" \in DOMAIN labels
              /\ FetchedStatus(NewCalls) \in {StatusClosed, StatusResolved}
              /\ ~(/\ "silence_id" \in DOMAIN labels
                   /\ labels["silence_id"] \in DOMAIN silences
                   /\ silences[labels["silence_id"]].exists
                   /\ silences[labels["silence_id"]].EndsAt > now)]_vars

\* C11: the detector calls ReopenTicket or CreateSilence for an alert only
\* if the alert carries a ticket label, the ticket fetch succeeded, the
\* ticket classifies as closed, and no lookup of the alert's silence_id
\* succeeded with an end time in the future; an alert without a ticket
\* label makes no port call at all.
C11_OnlyUncoveredClosed ==
    [][AlertStep =>
          LET labels == allAlerts[j].Labels
              acts   == OpCount(NewCalls, "ReopenTicket")
                            + OpCount(NewCalls, "CreateSilence")
          IN  /\ "ticket" \notin DOMAIN labels => NewCalls = <<>>
              /\ FetchedStatus(NewCalls) \notin {StatusClosed, StatusResolved}
                    => acts = 0
              /\ ActiveLookups(NewCalls) # {} => acts = 0
              /\ acts > 0 =>
                    /\ tickets[labels["ticket"]] \in {StatusClosed, StatusResolved}
                    /\ "silence_id" \in DOMAIN labels =>
                          OpCount(NewCalls, "GetSilence") = 1]_vars

\* an alert whose closed ticket is covered by a silence ending later was
\* passed over
C11_Witness ==
    /\ pc = "done"
    /\ \E k \in ActiveLookups(calls) :
          /\ calls[k - 1].op = "GetTicket"
          /\ calls[k - 1].status = StatusClosed
    /\ OpCount(calls, "ReopenTicket") = 0
    /\ OpCount(calls, "CreateSilence") = 0

\* the labels a created silence may match on
AllowList == {"alertname", "job", "instance", "severity"}

\* C12: the matchers of the silence the detector creates for an alert are
\* exactly one matcher per allow-list label (alertname, job, instance,
\* severity) present on the alert, each with the alert's value for the
\* label, IsEqual true and IsRegex false; no other label gives a matcher.
C12_MatchersFromAllowList ==
    [][AlertStep =>
          LET labels  == allAlerts[j].Labels
              present == AllowList \cap DOMAIN labels
          IN  \A m \in OpIndexes(NewCalls, "CreateSilence") :
                LET ms == NewCalls[m].matchers
                IN  /\ Len(ms) = Cardinality(present)
                    /\ \A l \in present :
                          \E k \in DOMAIN ms : ms[k].Name = l
                    /\ \A k \in DOMAIN ms :
                          /\ ms[k].Name \in present
                          /\ ms[k].Value = labels[ms[k].Name]
                          /\ ms[k].IsEqual
                          /\ ~ms[k].IsRegex
                    /\ NewCalls[m].ok =>
                          silences'[NewCalls[m].sid].Matchers = ms]_vars

\* a silence was created for an alert that has two allow-list labels and a
\* label outside the list
C12_Witness ==
    /\ pc = "done"
    /\ \E m \in OpIndexes(calls, "CreateSilence") :
          /\ calls[m].ok
          /\ Len(calls[m].matchers) = 2
          /\ "team" \in DOMAIN allAlerts[calls[m].item].Labels
          /\ Len(silences[calls[m].sid].Matchers) = 2

DetectorCalls == {"GetAlerts", "ReopenTicket", "CreateSilence"}

\* C13: with CheckAlerts false a run calls neither GetAlerts nor
\* ReopenTicket nor CreateSilence, and TicketsReopened and SilencesCreated
\* stay zero.
C13_DisabledDetectorSilent ==
    ~config.CheckAlerts =>
        /\ \A k \in DOMAIN calls : calls[k].op \notin DetectorCalls
        /\ result.TicketsReopened = 0
        /\ result.SilencesCreated = 0
        /\ allAlerts = <<>>
        /\ \A id \in FreshIds : ~silences[id].exists

\* a run with the detector disabled ended while a closed ticket had a
\* silence that ended
C13_Witness ==
    /\ pc = "done"
    /\ ~syncErr
    /\ ~config.CheckAlerts
    /\ tickets["T1"] = StatusClosed
    /\ silences["s1"].TicketRef = "T1"
    /\ silences["s1"].EndsAt <= now
    /\ calls[Len(calls)].op = "Push"

\* C14: when GetAlerts fails, the detector makes no further call (no
\* reopen, no create), one error wrapped as "check refired alerts" is in
\* result.Errors, the counters are those of the silence pass, Sync returns
\* no error, and the run ends with the metrics Push.
C14_GetAlertsFailureIsolated ==
    \A k \in OpIndexes(calls, "GetAlerts") :
        ~calls[k].ok =>
            /\ \A m \in DOMAIN calls :
                  /\ calls[m].op \notin {"ReopenTicket", "CreateSilence"}
                  /\ calls[m].phase # "alert"
            /\ ErrorsFor("check refired alerts", "") = 1
            /\ result.SilencesExtended = OkCount(calls, "ExtendSilence")
            /\ result.SilencesDeleted = OkCount(calls, "DeleteSilence")
            /\ result.TicketsReopened = 0
            /\ result.SilencesCreated = 0
            /\ ~syncErr
            /\ IF pc = "done"
               THEN Len(calls) = k + 1 /\ calls[k + 1].op = "Push"
               ELSE Len(calls) = k /\ pc = "alerts" /\ j > Len(allAlerts)

\* GetAlerts failed after the silence pass deleted a silence, and the run
\* ended
C14_Witness ==
    /\ pc = "done"
    /\ \E k \in OpIndexes(calls, "GetAlerts") : ~calls[k].ok
    /\ result.SilencesDeleted = 1
    /\ Len(result.Errors) = 1
    /\ tickets["T1"] = StatusResolved

\* C15: when ReopenTicket fails for an alert, the detector makes no
\* CreateSilence call for that alert, no counter changes, the ticket and the
\* silences stay as they were, one error wrapped as "reopen ticket <key>" is
\* appended to result.Errors, and the loop moves on to the next alert.
C15_ReopenFailureSkipsCreate ==
    [][(/\ AlertStep
        /\ \E k \in OpIndexes(NewCalls, "ReopenTicket") : ~NewCalls[k].ok) =>
          LET key == allAlerts[j].Labels["ticket"]
          IN  /\ OpCount(NewCalls, "ReopenTicket") = 1
              /\ OpCount(NewCalls, "CreateSilence") = 0
              /\ NewCalls[Len(NewCalls)].op = "ReopenTicket"
              /\ Counters(result') = Counters(result)
              /\ result'.Errors
                    = Append(result.Errors, WrapError("reopen ticket", key))
              /\ silences' = silences
              /\ tickets' = tickets
              /\ j' = j + 1
              /\ pc' = pc]_vars

\* the reopen failed for the first alert and the second alert was handled
C15_Witness ==
    /\ pc = "done"
    /\ \E k \in OpIndexes(calls, "ReopenTicket") :
          /\ ~calls[k].ok
          /\ calls[k].item = 1
          /\ Len(calls) > k + 1
          /\ calls[k + 1].op = "GetTicket"
          /\ calls[k + 1].phase = "alert"
          /\ calls[k + 1].item = 2
    /\ result.Errors = <<WrapError("reopen ticket", "T1")>>

\* the comments a step adds to the ticket `key`
NewComments(key) ==
    SubSeq(comments'[key], Len(comments[key]) + 1, Len(comments'[key]))

\* C16: when ReopenTicket succeeds for an alert and the CreateSilence after
\* it fails, TicketsReopened increases by one, SilencesCreated does not
\* change, one error wrapped as "create silence for <key>" is appended to
\* result.Errors, no comment about a new silence is added to the ticket,
\* and the loop moves on to the next alert.
C16_CreateFailureAfterReopen ==
    [][(/\ AlertStep
        /\ \E k \in OpIndexes(NewCalls, "ReopenTicket") : NewCalls[k].ok
        /\ \E k \in OpIndexes(NewCalls, "CreateSilence") : ~NewCalls[k].ok) =>
          LET key == allAlerts[j].Labels["ticket"]
          IN  /\ result'.TicketsReopened = result.TicketsReopened + 1
              /\ result'.SilencesCreated = result.SilencesCreated
              /\ result'.SilencesExtended = result.SilencesExtended
              /\ result'.SilencesDeleted = result.SilencesDeleted
              /\ result'.Errors
                    = Append(result.Errors, WrapError("create silence for", key))
              /\ OpCount(NewCalls, "AddComment") = 0
              /\ \A c \in DOMAIN NewComments(key) :
                    NewComments(key)[c].kind # "created"
              /\ silences' = silences
              /\ j' = j + 1
              /\ pc' = pc]_vars

\* the ticket was reopened, the creation failed, and the second alert was
\* handled
C16_Witness ==
    /\ pc = "done"
    /\ result.TicketsReopened = 1
    /\ result.SilencesCreated = 0
    /\ result.Errors = <<WrapError("create silence for", "T1")>>
    /\ \E k \in OpIndexes(calls, "CreateSilence") :
          /\ ~calls[k].ok
          /\ calls[k].item = 1
          /\ Len(calls) > k + 1
          /\ calls[k + 1].op = "GetTicket"
          /\ calls[k + 1].item = 2

\* C17: when the ticket fetch fails for an alert, the detector makes no
\* other call for that alert (no GetSilence, ReopenTicket, CreateSilence or
\* AddComment), changes no counter and no backend, Sync returns no error,
\* and the loop moves on to the next alert.
C17_AlertFetchFailureSkips ==
    [][(/\ AlertStep
        /\ \E k \in OpIndexes(NewCalls, "GetTicket") : ~NewCalls[k].ok) =>
          /\ Len(NewCalls) = 1
          /\ \A k \in DOMAIN NewCalls :
                NewCalls[k].op \notin {"GetSilence", "ReopenTicket",
                                       "CreateSilence", "AddComment"}
          /\ Counters(result') = Counters(result)
          /\ silences' = silences
          /\ tickets' = tickets
          /\ comments' = comments
          /\ ~syncErr'
          /\ j' = j + 1
          /\ pc' = pc]_vars

\* the ticket fetch failed for the first alert, and the ticket was reopened
\* for the second
C17_Witness ==
    /\ pc = "done"
    /\ ~syncErr
    /\ \E k \in OpIndexes(calls, "GetTicket") :
          /\ ~calls[k].ok
          /\ calls[k].phase = "alert"
          /\ calls[k].item = 1
          /\ calls[k + 1].op = "GetTicket"
          /\ calls[k + 1].item = 2
    /\ result.TicketsReopened = 1
    /\ result.SilencesCreated = 1

\* the failed calls of `op` the detector made
FailedAlertCalls(op) ==
    {k \in OpIndexes(calls, op) : calls[k].phase = "alert" /\ ~calls[k].ok}

\* C18 as stated: every failure met while an alert is processed, a failed
\* ticket fetch included, is appended to result.Errors, so at the end of a
\* run result.Errors has at least as many entries as there are alerts whose
\* ticket fetch failed.
C18_Original ==
    pc = "done" =>
        Len(result.Errors) >= Cardinality(FailedAlertCalls("GetTicket"))

\* C18: a failed ReopenTicket and a failed CreateSilence of the detector are
\* each appended to result.Errors wrapped with the ticket key; a failed
\* ticket fetch, a failed silence lookup and a failed AddComment of the
\* detector are not, so the errors of a run are those of the failed
\* silences, of the failed reopens and creations, of GetAlerts and of Push.
C18_AlertErrorsRecorded ==
    /\ \A key \in TicketKeys :
          /\ ErrorsFor("reopen ticket", key)
                = Cardinality({k \in FailedAlertCalls("ReopenTicket") :
                                  calls[k].key = key})
          /\ ErrorsFor("create silence for", key)
                = Cardinality({k \in FailedAlertCalls("CreateSilence") :
                                  calls[k].key = key})
    /\ Len(result.Errors)
          = Cardinality({n \in DOMAIN listed : ItemFailed(n)})
            + Cardinality(FailedAlertCalls("ReopenTicket"))
            + Cardinality(FailedAlertCalls("CreateSilence"))
            + Cardinality({k \in DOMAIN calls :
                  calls[k].op \in {"GetAlerts", "Push"} /\ ~calls[k].ok})

\* the ticket fetch of an alert failed and the run ended without an error
C18_Witness ==
    /\ pc = "done"
    /\ FailedAlertCalls("GetTicket") # {}
    /\ result.Errors = <<>>

\* C19: a run in which ListSilences succeeded ends with the metrics Push,
\* called once, after the loop over the silences and after the detector; a
\* failed Push appends one error wrapped as "push metrics" to result.Errors,
\* a successful one appends none, no counter changes, and Sync returns no
\* error.
C19_PushOnceAtEnd ==
    [][/\ OpCount(NewCalls, "Push") > 0 =>
            /\ Len(NewCalls) = 1
            /\ OpCount(calls, "Push") = 0
            /\ pc # "done" /\ pc' = "done"
            /\ i > Len(listed)
            /\ config.CheckAlerts =>
                  /\ OpCount(calls, "GetAlerts") = 1
                  /\ j > Len(allAlerts)
            /\ Counters(result') = Counters(result)
            /\ result'.Errors =
                  IF NewCalls[1].ok THEN result.Errors
                  ELSE Append(result.Errors, WrapError("push metrics", ""))
            /\ ~syncErr'
       /\ (pc # "done" /\ pc' = "done" /\ calls'[1].ok) =>
            OpCount(NewCalls, "Push") = 1]_vars

\* the push failed at the end of a run that deleted a silence and reopened
\* a ticket
C19_Witness ==
    /\ pc = "done"
    /\ ~syncErr
    /\ calls[Len(calls)].op = "Push"
    /\ ~calls[Len(calls)].ok
    /\ result.SilencesDeleted = 1
    /\ result.TicketsReopened = 1
    /\ result.Errors = <<WrapError("push metrics", "")>>

\* the characters of a text
CharsOf(text) == {text[n] : n \in DOMAIN text}

\* C20: for every text, prefix and non-empty reference without a line
\* break, extracting with the same prefix from the text the embedding
\* produced returns that reference, on the silence side
\* (convertToPromSilence, extractTicketRef) and on the ticket side
\* (convertToJiraIssue, extractSilenceRef); embedding an empty reference
\* returns the text unchanged.
C20_CodecRoundTrip ==
    /\ (codec.stage = "extracted" /\ codec.ref # <<>>
            /\ "\n" \notin CharsOf(codec.ref)) =>
          codec.extracted = codec.ref
    /\ (codec.stage \in {"embedded", "extracted"} /\ codec.ref = <<>>) =>
          codec.embedded = codec.text

\* a reference came back from a ticket description that itself began with
\* the marker and held a line break
C20_Witness ==
    /\ codec.stage = "extracted"
    /\ codec.side = "ticket"
    /\ codec.ref = <<"a", ":">>
    /\ codec.extracted = codec.ref
    /\ Len(codec.text) > Len(TicketMarker(codec.prefix))
    /\ SubSeq(codec.text, 1, Len(TicketMarker(codec.prefix)))
          = TicketMarker(codec.prefix)
    /\ "\n" \in CharsOf(codec.text)

\* the marker the extractor of a side compares with
MarkerOf(side, prefix) ==
    IF side = "silence" THEN <<"#", " ">> \o prefix \o <<":", " ">>
    ELSE prefix \o <<":", " ">>

\* the text begins with the marker
BeginsWith(text, marker) ==
    /\ Len(text) >= Len(marker)
    /\ \A n \in DOMAIN marker : text[n] = marker[n]

\* C21: extractTicketRef and extractSilenceRef return the empty string for
\* every text that does not begin with the exact marker (the empty text, a
\* shorter text, another prefix, the marker after the first character); for
\* a text that begins with the marker they return what follows it, up to
\* but excluding the first line break, or up to the end of the text.
C21_LiteralCompareAtZero ==
    codec.stage = "scanned" =>
        LET marker == MarkerOf(codec.side, codec.prefix)
            from   == Len(marker)
            got    == codec.extracted
        IN  IF ~BeginsWith(codec.text, marker)
            THEN got = <<>>
            ELSE /\ from + Len(got) <= Len(codec.text)
                 /\ \A n \in DOMAIN got :
                       got[n] = codec.text[from + n] /\ got[n] # "\n"
                 /\ \/ from + Len(got) = Len(codec.text)
                    \/ codec.text[from + Len(got) + 1] = "\n"

\* no reference was found in a comment that holds the marker from its
\* second character on
C21_Witness ==
    /\ codec.stage = "scanned"
    /\ codec.side = "silence"
    /\ codec.text = <<"a">> \o MarkerOf("silence", codec.prefix) \o <<"a", "\n">>
    /\ codec.extracted = <<>>

\* C22: IsResolved holds exactly for status resolved, IsClosed exactly for
\* closed and resolved, IsOpen exactly for open and in-progress; so
\* IsResolved implies IsClosed, IsOpen and IsClosed never hold together, and
\* status reopened satisfies none of the three.
C22_StatusClassification ==
    \A key \in TicketKeys :
        LET status == tickets[key]
        IN  /\ IsResolved(status) <=> status = "resolved"
            /\ IsClosed(status) <=> status \in {"closed", "resolved"}
            /\ IsOpen(status) <=> status \in {"open", "in_progress"}
            /\ IsResolved(status) => IsClosed(status)
            /\ ~(IsOpen(status) /\ IsClosed(status))
            /\ status = "reopened" =>
                  ~IsResolved(status) /\ ~IsClosed(status) /\ ~IsOpen(status)

\* the detector left a ticket in status reopened, which none of the three
\* predicates accepts
C22_Witness ==
    /\ pc = "done"
    /\ result.TicketsReopened = 1
    /\ tickets["T1"] = "reopened"
    /\ ~IsResolved(tickets["T1"])
    /\ ~IsClosed(tickets["T1"])
    /\ ~IsOpen(tickets["T1"])

\* C23: ListSilences of the Prometheus adapter returns exactly the backend
\* silences whose status is present with state active or pending, each once
\* and in the backend's order; a silence reported expired, or without a
\* status, is never returned.
C23_OnlyActiveOrPendingListed ==
    (adapter.op = "ListSilences" /\ adapter.stage = "returned") =>
        LET psList == adapter.psList
            out    == adapter.returned
            Kept   == {n \in DOMAIN psList :
                          /\ psList[n].Status.present
                          /\ \/ psList[n].Status.State = "active"
                             \/ psList[n].Status.State = "pending"}
        IN  /\ {out[m].ID : m \in DOMAIN out} = Kept
            /\ Len(out) = Cardinality(Kept)
            /\ \A m1, m2 \in DOMAIN out : m1 < m2 => out[m1].ID < out[m2].ID
            /\ \A m \in DOMAIN out :
                  /\ psList[out[m].ID].Status.State # "expired"
                  /\ out[m].Comment = psList[out[m].ID].Comment

\* a backend list of an expired silence and a coupled active or pending one
\* has been listed
C23_Witness ==
    /\ adapter.op = "ListSilences"
    /\ adapter.stage = "returned"
    /\ Len(adapter.psList) = 2
    /\ \E n \in DOMAIN adapter.psList :
          adapter.psList[n].Status.present /\ adapter.psList[n].Status.State = "expired"
    /\ Len(adapter.returned) = 1
    /\ adapter.returned[1].TicketRef # <<>>

\* the n-th smallest member of a set of indexes
NthOf(S, m) == CHOOSE n \in S : Cardinality({k \in S : k < n}) = m - 1

\* C24: GetAlerts of the Prometheus adapter returns only active alerts, and,
\* for matchers that are not regular expressions, exactly the active backend
\* alerts that satisfy every matcher, in the backend's order: an equality
\* matcher is satisfied iff the label is present with the same value, a
\* negative one iff the label is absent or has a different value; with no
\* matcher every active alert is returned.
C24_ActiveMatchingAlerts ==
    (adapter.op = "GetAlerts" /\ adapter.stage = "returned") =>
        LET paList   == adapter.paList
            matchers == adapter.matchers
            out      == adapter.returned
            Literal  == \A k \in DOMAIN matchers : ~matchers[k].IsRegex
            Present(n, k) == matchers[k].Name \in DOMAIN paList[n].Labels
            Same(n, k) ==
                Present(n, k) /\ paList[n].Labels[matchers[k].Name] = matchers[k].Value
            Satisfied(n, k) ==
                IF matchers[k].IsEqual THEN Same(n, k)
                ELSE ~Present(n, k) \/ ~Same(n, k)
            Active == {n \in DOMAIN paList : paList[n].Status.State = "active"}
            Kept   == {n \in Active : \A k \in DOMAIN matchers : Satisfied(n, k)}
        IN  /\ \A m \in DOMAIN out : out[m].Status = "active"
            /\ Len(out) <= Cardinality(Active)
            /\ Literal =>
                  /\ Len(out) = Cardinality(Kept)
                  /\ \A m \in DOMAIN out :
                        out[m].Labels = paList[NthOf(Kept, m)].Labels
            /\ matchers = <<>> => Len(out) = Cardinality(Active)

\* two literal matchers, one of equality and a negative one on an absent
\* label, have selected one of two active alerts
C24_Witness ==
    /\ adapter.op = "GetAlerts"
    /\ adapter.stage = "returned"
    /\ Len(adapter.paList) = 2
    /\ \A n \in DOMAIN adapter.paList : adapter.paList[n].Status.State = "active"
    /\ Len(adapter.matchers) = 2
    /\ adapter.matchers[1] = Matcher("l", "x", FALSE, TRUE)
    /\ adapter.matchers[2] = Matcher("m", "x", FALSE, FALSE)
    /\ Len(adapter.returned) = 1
    /\ adapter.returned[1].Labels = [n \in {"l"} |-> "x"]
    /\ adapter.paList[1].Labels = [n \in {"l", "m"} |-> "x"]

\* the spellings ReopenTicket accepts, whatever their case
AcceptedTransition(t) ==
    \/ ToLower(t.Name) = "reopen"
    \/ ToLower(t.To) \in {"open", "reopened", "to do"}

\* C25: a ReopenTicket with a non-empty comment whose calls all succeed has
\* made exactly AddComment, getTransitions, doTransition, in this order, and
\* the transition performed is the first one of the returned list whose name
\* is 'reopen' or whose target is 'open', 'reopened' or 'to do', whatever the
\* case; when the list has no such transition ReopenTicket returns an error
\* and performs no transition.
C25_ReopenCallOrder ==
    (adapter.op = "ReopenTicket" /\ adapter.stage = "returned") =>
        LET cs       == adapter.calls
            ts       == adapter.transitions
            Accepted == {n \in DOMAIN ts : AcceptedTransition(ts[n])}
            fetched  == \E m \in DOMAIN cs : cs[m].op = "getTransitions" /\ cs[m].ok
        IN  /\ ( /\ adapter.comment # ""
                 /\ \A m \in DOMAIN cs : cs[m].ok
                 /\ Accepted # {} ) =>
                   /\ Len(cs) = 3
                   /\ cs[1].op = "AddComment"
                   /\ cs[2].op = "getTransitions"
                   /\ cs[3].op = "doTransition"
                   /\ cs[3].id \in Accepted
                   /\ \A n \in Accepted : cs[3].id <= n
                   /\ adapter.err = ""
            /\ (fetched /\ Accepted = {}) =>
                   /\ adapter.err # ""
                   /\ \A m \in DOMAIN cs : cs[m].op # "doTransition"

\* a commented reopen picked the second of two transitions, the first one
\* not being a reopen transition, and every call succeeded
C25_Witness ==
    /\ adapter.op = "ReopenTicket"
    /\ adapter.stage = "returned"
    /\ adapter.comment # ""
    /\ adapter.err = ""
    /\ Len(adapter.transitions) = 2
    /\ adapter.transitions[1].Name = "Close"
    /\ adapter.transitions[1].To = "Closed"
    /\ adapter.transitions[2].Name = "Close"
    /\ adapter.transitions[2].To = "To Do"
    /\ Len(adapter.calls) = 3
    /\ adapter.calls[3].id = 2

\* C26: serviceToDiscovered builds http://<name>.<namespace>.svc.cluster.local:<port>;
\* when the service exposes a port whose number is the preferred port (9093
\* for a preferred port of 0) the URL carries that number, otherwise the
\* number of a port named web or http if there is one, otherwise the number
\* of the first listed port.
C26_PreferredPortFirst ==
    (adapter.op = "serviceToDiscovered" /\ adapter.stage = "returned") =>
        LET svc    == adapter.svc
            ports  == svc.Ports
            wanted == IF adapter.preferredPort = 0 THEN 9093 ELSE adapter.preferredPort
            url    == adapter.discovered.URL
            Exposed == \E n \in DOMAIN ports : ports[n].Port = wanted
            Named   == {n \in DOMAIN ports : ports[n].Name \in {"web", "http"}}
        IN  /\ Len(url) = 6
            /\ SubSeq(url, 1, 5) =
                  <<"http://", svc.Name, ".", svc.Namespace, ".svc.cluster.local:">>
            /\ Exposed => url[6] = wanted
            /\ (~Exposed /\ Named # {}) => \E n \in Named : url[6] = ports[n].Port
            /\ (~Exposed /\ Named = {} /\ Len(ports) > 0) => url[6] = ports[1].Port

\* a service lists a port named web ahead of the preferred port, and has been
\* converted
C26_Witness ==
    /\ adapter.op = "serviceToDiscovered"
    /\ adapter.stage = "returned"
    /\ adapter.preferredPort = 9093
    /\ Len(adapter.svc.Ports) = 2
    /\ adapter.svc.Ports[1] = [Name |-> "web", Port |-> 8080]
    /\ adapter.svc.Ports[2] = [Name |-> "metrics", Port |-> 9093]
    /\ adapter.discovered.URL[6] = 8080

\* the place of a call in the order of a run
PhaseRank(phase) ==
    CASE phase = "list" -> 0
      [] phase = "silence" -> 1
      [] phase = "alerts" -> 2
      [] phase = "alert" -> 2
      [] phase = "push" -> 3

InRunOrder(c1, c2) ==
    \/ PhaseRank(c1.phase) < PhaseRank(c2.phase)
    \/ PhaseRank(c1.phase) = PhaseRank(c2.phase) /\ c1.item <= c2.item

AlertCalls(n) == {k \in DOMAIN calls : calls[k].phase = "alert" /\ calls[k].item = n}

C27_EachOnceInOrder ==
    /\ \A k \in 1..(Len(calls) - 1) : InRunOrder(calls[k], calls[k + 1])
    /\ (pc = "done" /\ calls[1].ok) =>
          /\ i = Len(listed) + 1
          /\ \A n \in DOMAIN listed :
                Cardinality({k \in ItemCalls(n) : calls[k].op = "GetTicket"})
                    = BoolToInt(listed[n].TicketRef # "")
          /\ (config.CheckAlerts /\ AllOk(calls, "GetAlerts")) =>
                /\ j = Len(allAlerts) + 1
                /\ \A n \in DOMAIN allAlerts :
                      Cardinality({k \in AlertCalls(n) : calls[k].op = "GetTicket"})
                          = BoolToInt(HasTicketLabel(allAlerts[n]))

\* C27: every run that has started terminates; the port calls of a run are
\* made in the order list, silences one after the other, alerts one after
\* the other, push; and at the end of a run in which ListSilences succeeded
\* every listed coupled silence has had exactly one ticket fetch, and, when
\* alert checking is enabled and GetAlerts succeeded, so has every returned
\* alert with a ticket label, whichever per-item call failed.
C27_TerminatesEachOnce ==
    /\ (pc # "idle") ~> (pc = "done")
    /\ []C27_EachOnceInOrder

\* a run processed a silence and two alerts, one call of an item failed, and
\* the run ended
C27_Witness ==
    /\ pc = "done"
    /\ injected = 1
    /\ \E k \in DOMAIN calls : calls[k].phase \in {"silence", "alert"} /\ ~calls[k].ok
    /\ \E n \in DOMAIN listed : listed[n].TicketRef # ""
    /\ Len(allAlerts) = 2
    /\ \A n \in DOMAIN allAlerts : AlertCalls(n) # {}

\* the counters of the run are the numbers of calls that succeeded in it
C28_CountersMatch ==
    pc # "idle" =>
        /\ result.SilencesDeleted = OkCount(calls, "DeleteSilence")
        /\ result.SilencesExtended = OkCount(calls, "ExtendSilence")
        /\ result.TicketsReopened = OkCount(calls, "ReopenTicket")
        /\ result.SilencesCreated = OkCount(calls, "CreateSilence")

\* a run starts with every counter at zero, and no step of it lowers one
C28_CountersStep ==
    /\ (pc = "idle" /\ pc' # "idle") => Counters(result') = <<0, 0, 0, 0>>
    /\ (pc # "idle") =>
          \A n \in 1..4 : Counters(result')[n] >= Counters(result)[n]

\* C28: throughout a run, and so at its end, SilencesDeleted,
\* SilencesExtended, TicketsReopened and SilencesCreated are the numbers of
\* DeleteSilence, ExtendSilence, ReopenTicket and CreateSilence calls that
\* succeeded in this run; a run starts with every counter at zero, whatever
\* the run before returned, and never lowers a counter.
C28_CounterAccuracy ==
    /\ []C28_CountersMatch
    /\ [][C28_CountersStep]_vars

\* a run has ended with a reopen and a create counted, and a failed delete
\* not counted
C28_Witness ==
    /\ pc = "done"
    /\ result.TicketsReopened = 1
    /\ result.SilencesCreated = 1
    /\ result.SilencesDeleted = 0
    /\ OpCount(calls, "DeleteSilence") = 1
    /\ \E k \in DOMAIN result.Errors : result.Errors[k].wrap = "silence"

\* the step that is next makes the same calls and the same changes whatever
\* the description and the silence reference of the ticket it fetches
C29_StatusOnly ==
    /\ (pc = "silences" /\ i <= Len(listed) /\ listed[i].TicketRef # "") =>
          \A f \in SilenceFailures(MaxFailures - injected), text \in TicketTexts :
              processSilenceOf(text, i, listed[i], f) = processSilence(i, listed[i], f)
    /\ (pc = "alerts" /\ j <= Len(allAlerts)) =>
          \A f \in AlertFailures(MaxFailures - injected), text \in TicketTexts :
              checkAlertOf(text, j, allAlerts[j], f) = checkAlert(j, allAlerts[j], f)

\* an alert of a closed ticket that names a silence is left alone only when
\* GetSilence returned that silence with an end time in the future
C29_ReferenceVerified ==
    (/\ AlertStep
     /\ "silence_id" \in DOMAIN allAlerts[j].Labels
     /\ FetchedStatus(NewCalls) \in {"closed", "resolved"}
     /\ OpCount(NewCalls, "ReopenTicket") = 0) =>
        \E k \in OpIndexes(NewCalls, "GetSilence") :
            /\ NewCalls[k].ok
            /\ NewCalls[k].sid = allAlerts[j].Labels["silence_id"]
            /\ NewCalls[k].endsAt > now

\* C29: the engine's decisions depend on a ticket only through its status:
\* at every step of a run the calls made, the backend changes and the
\* counters are the same whatever the description and the embedded silence
\* reference of the ticket the step fetches, so two runs from backends that
\* differ only in these make the same silence writes, reopen and create
\* calls and end with the same counters; and a silence named by an alert
\* keeps the detector from acting only after GetSilence has confirmed that
\* it exists with an end time in the future.
C29_TicketStatusOnly ==
    /\ []C29_StatusOnly
    /\ [][C29_ReferenceVerified]_vars

\* a run deleted the silence of a resolved ticket whose description refers
\* to a silence, and left alone an alert of that ticket whose silence
\* GetSilence confirmed
C29_Witness ==
    /\ pc = "done"
    /\ TicketText("T1").SilenceRef # ""
    /\ \E k \in OpIndexes(calls, "GetTicket") :
          calls[k].phase = "silence" /\ calls[k].key = "T1" /\ calls[k].ok
    /\ \E k \in OpIndexes(calls, "GetSilence") : calls[k].ok /\ calls[k].endsAt > now
    /\ OpCount(calls, "ReopenTicket") = 0
    /\ \E k \in OpIndexes(calls, "GetTicket") :
          calls[k].phase = "alert" /\ calls[k].status \in {"closed", "resolved"}

\* C30: after ExtendSilence(id, t) has succeeded, the silence submitted to
\* the backend has end time t and the id, comment, creator, start time and
\* matchers of the silence that was fetched, also when the comment carries
\* a coupling marker and after repeated extensions.
C30_OnlyEndTimeChanges ==
    (adapter.op = "ExtendSilence" /\ adapter.stage = "extended") =>
        /\ adapter.submitted.EndsAt = adapter.newEndTime
        /\ adapter.submitted.ID = adapter.fetched.ID
        /\ adapter.submitted.Comment = adapter.fetched.Comment
        /\ adapter.submitted.CreatedBy = adapter.fetched.CreatedBy
        /\ adapter.submitted.StartsAt = adapter.fetched.StartsAt
        /\ adapter.submitted.Matchers = adapter.fetched.Matchers

\* a silence whose comment carries a coupling marker has been extended
\* twice, and its comment now carries the marker three times
C30_Witness ==
    /\ adapter.op = "ExtendSilence"
    /\ adapter.stage = "extended"
    /\ adapter.extensions = 2
    /\ BeginsWith(adapter.fetched.Comment, SilenceMarker(BackendPrefix))
    /\ Len(adapter.submitted.Comment)
          > Len(adapter.fetched.Comment)
    /\ Len(adapter.fetched.Comment)
          >= 2 * Len(SilenceMarker(BackendPrefix))

\* C31: whenever a run calls ExtendSilence(id, newEnd), newEnd is not
\* earlier than the end time the silence has before the call, for every
\* configuration LoadConfig returns.
C31_ExtensionNeverShortens ==
    [][\A k \in 1..Len(NewCalls) :
          (NewCalls[k].op = "ExtendSilence" /\ silences[NewCalls[k].sid].exists)
              => NewCalls[k].endsAt >= silences[NewCalls[k].sid].EndsAt]_vars

\* a run configured with a threshold of 4 hours and an extension of 1 hour
\* has extended a silence that had 3 hours left, to 1 hour from now
C31_Witness ==
    /\ config.ExtensionDuration < config.ExpiryThreshold
    /\ config.ExtensionDuration > 0
    /\ result.SilencesExtended = 1
    /\ \E k \in 1..Len(calls) :
        /\ calls[k].op = "ExtendSilence"
        /\ calls[k].ok
        /\ calls[k].endsAt < listed[calls[k].item].EndsAt
        /\ silences[calls[k].sid].EndsAt = calls[k].endsAt

\* the operations that write to a backend
WriteOps ==
    {"ExtendSilence", "DeleteSilence", "CreateSilence", "ReopenTicket",
     "AddComment"}

\* the run under way has issued no write and counted nothing
NothingDone ==
    /\ \A k \in 1..Len(calls) : calls[k].op \notin WriteOps
    /\ result.SilencesExtended = 0
    /\ result.SilencesDeleted = 0
    /\ result.SilencesCreated = 0
    /\ result.TicketsReopened = 0

\* the run under way is a second run, after a first run that returned no
\* error and an empty error list
AfterCleanRun ==
    /\ adapter.op = "Sync"
    /\ ~adapter.syncErr
    /\ adapter.result.Errors = <<>>

SilenceLookupFailed ==
    \E k \in 1..Len(calls) : calls[k].op = "GetSilence" /\ ~calls[k].ok

SuccessfulCalls(op, key) ==
    {k \in 1..Len(calls) :
        calls[k].op = op /\ calls[k].ok /\ calls[k].key = key}

\* C33: in one run a ticket is reopened at most once and at most one
\* silence is created for it, however many firing alerts carry its label:
\* every fetch of the ticket after its reopening finds it no longer closed.
C33_ReopenedAtMostOnce ==
    \A key \in TicketKeys :
        /\ Cardinality(SuccessfulCalls("ReopenTicket", key)) <= 1
        /\ Cardinality(SuccessfulCalls("CreateSilence", key)) <= 1
        /\ \A r \in SuccessfulCalls("ReopenTicket", key) :
            \A g \in SuccessfulCalls("GetTicket", key) :
                g > r => ~IsClosed(calls[g].status)

\* two alerts carried the label of a closed ticket: the first led to the
\* reopening and a silence, the second found the ticket reopened
C33_Witness ==
    /\ pc = "done"
    /\ Len(allAlerts) = 2
    /\ \A n \in 1..2 : HasTicketLabel(allAlerts[n])
                          /\ allAlerts[n].Labels["ticket"] = "T1"
    /\ Cardinality(SuccessfulCalls("ReopenTicket", "T1")) = 1
    /\ Cardinality(SuccessfulCalls("CreateSilence", "T1")) = 1
    /\ \E g1, g2 \in SuccessfulCalls("GetTicket", "T1") :
        /\ calls[g1].phase = "alert" /\ calls[g1].item = 1
        /\ IsClosed(calls[g1].status)
        /\ calls[g2].phase = "alert" /\ calls[g2].item = 2
        /\ ~IsClosed(calls[g2].status)

\* the silence pass of the run has deleted a silence coupled to this ticket
DeletedFor(key) ==
    \E k \in 1..Len(calls) :
        /\ calls[k].op = "DeleteSilence"
        /\ calls[k].ok
        /\ listed[calls[k].item].TicketRef = key

\* the calls by which the detector reopens this ticket or creates a
\* silence for it
DetectorWrites(key) ==
    {k \in 1..Len(calls) :
        /\ calls[k].op \in {"ReopenTicket", "CreateSilence"}
        /\ calls[k].key = key}

\* the fetches of this ticket for an alert that found it resolved
ResolvedFetches(key) ==
    {g \in SuccessfulCalls("GetTicket", key) :
        calls[g].phase = "alert" /\ IsResolved(calls[g].status)}

\* C34 as stated: a run that has deleted a silence because its ticket is
\* resolved does not reopen that ticket or create a silence for it.
C34_Original ==
    \A key \in TicketKeys : DeletedFor(key) => DetectorWrites(key) = {}

\* C34 (amended): a run that has deleted a silence because its ticket is
\* resolved reopens that ticket, or creates a silence for it, only for a
\* firing alert that carries the label of the ticket and for which the
\* ticket was fetched and found still resolved; and for every such alert
\* for which no silence is found, it does call ReopenTicket, and
\* CreateSilence when the reopening has succeeded.
C34_DeleteThenRecreate ==
    \A key \in TicketKeys :
        DeletedFor(key) =>
            /\ \A w \in DetectorWrites(key) :
                /\ calls[w].phase = "alert"
                /\ allAlerts[calls[w].item].Labels["ticket"] = key
                /\ \E g \in ResolvedFetches(key) :
                    g < w /\ calls[g].item = calls[w].item
            /\ \A g \in ResolvedFetches(key) :
                \/ \E s \in 1..Len(calls) :
                    /\ calls[s].op = "GetSilence"
                    /\ calls[s].ok
                    /\ calls[s].item = calls[g].item
                \/ \E w \in DetectorWrites(key) :
                    /\ calls[w].op = "ReopenTicket"
                    /\ calls[w].item = calls[g].item
            /\ \A r \in SuccessfulCalls("ReopenTicket", key) :
                \E w \in DetectorWrites(key) :
                    /\ calls[w].op = "CreateSilence"
                    /\ calls[w].item = calls[r].item

\* a run has deleted the silence of a resolved ticket and then, for an
\* alert naming that ticket and the deleted silence, reopened the ticket
\* and created a new silence for it
C34_Witness ==
    /\ pc = "done"
    /\ DeletedFor("T1")
    /\ result.SilencesDeleted = 1
    /\ result.TicketsReopened = 1
    /\ result.SilencesCreated = 1
    /\ Cardinality(SuccessfulCalls("ReopenTicket", "T1")) = 1
    /\ Cardinality(SuccessfulCalls("CreateSilence", "T1")) = 1
    /\ ~silences["s1"].exists
    /\ \E id \in FreshIds : silences[id].exists /\ silences[id].TicketRef = "T1"

\* C35: every silence the detector creates for an alert that carries a
\* ticket label has at least one matcher, whatever other labels the alert
\* has.
C35_CreatedHasMatcher ==
    (adapter.op = "CreateSilence" /\ adapter.stage = "created") =>
        Len(adapter.silence.Matchers) >= 1

\* the detector has created a silence without matchers, for an alert that
\* carries a ticket label and a team label and none of the labels copied
C35_Witness ==
    /\ adapter.op = "CreateSilence"
    /\ adapter.stage = "created"
    /\ DOMAIN adapter.alert.Labels = {"ticket", "team"}
    /\ adapter.silence.TicketRef = adapter.alert.Labels["ticket"]
    /\ adapter.silence.Matchers = <<>>

\* a silence coupled to this ticket exists in the backend
CoveredBySilence(key) ==
    \E id \in AllSilenceIds :
        silences[id].exists /\ silences[id].TicketRef = key

\* the first run reopened a ticket and failed to create the silence for it
ReopenedWithoutSilence ==
    /\ adapter.op = "Sync"
    /\ adapter.result.TicketsReopened = 1
    /\ adapter.result.SilencesCreated = 0
    /\ \E e \in 1..Len(adapter.result.Errors) :
        adapter.result.Errors[e] = WrapError("create silence for", "T1")

\* the second run has returned, no call of it having been made to fail, and
\* it has seen an alert of the ticket firing
HealthyRunDone ==
    /\ pc = "done"
    /\ ~syncErr
    /\ injected = adapter.injected
    /\ result.Errors = <<>>
    /\ \E n \in 1..Len(allAlerts) :
        HasTicketLabel(allAlerts[n]) /\ allAlerts[n].Labels["ticket"] = "T1"

\* C36: when a run has reopened a ticket and CreateSilence has failed, a
\* later run with healthy backends and the same alert still firing creates
\* the missing silence for that ticket.
C36_MissingSilenceCreated ==
    (ReopenedWithoutSilence /\ HealthyRunDone) =>
        /\ result.SilencesCreated >= 1
        /\ CoveredBySilence("T1")

\* a healthy second run has fetched the reopened ticket for the alert that
\* still fires, found it not closed, and returned without creating the
\* silence the first run failed to create
C36_Witness ==
    /\ ReopenedWithoutSilence
    /\ HealthyRunDone
    /\ tickets["T1"] \in ReopenedStatuses
    /\ \E g \in SuccessfulCalls("GetTicket", "T1") :
        calls[g].phase = "alert" /\ ~IsClosed(calls[g].status)
    /\ \A k \in 1..Len(calls) : calls[k].op \notin {"ReopenTicket", "CreateSilence"}
    /\ result.SilencesCreated = 0
    /\ ~CoveredBySilence("T1")

\* the run found the ticket closed before any run had reopened it, went
\* through without a failed call and without finding an active silence
WentThrough(r) ==
    /\ adapter.run[r].at = "done"
    /\ IsClosed(adapter.run[r].status)
    /\ ~adapter.run[r].othersReopened
    /\ adapter.run[r].outcome \notin {"covered", "reopen_failed", "create_failed"}

\* the silences coupled to this ticket that the detector has created
CreatedSilences(key) ==
    {id \in FreshIds : silences[id].exists /\ silences[id].TicketRef = key}

\* C37: when two overlapping runs both fetch the closed ticket of a refiring
\* alert before either reopens it, each reopens the ticket and each creates
\* a silence, which leaves two silences coupled to the ticket; a run that
\* fetches the ticket after the other has reopened it and returned finds it
\* no longer closed and creates none.
C37_NoDeduplication ==
    adapter.op = "Overlap" =>
        /\ (\A r \in Runs : WentThrough(r)) =>
            /\ \A r \in Runs :
                /\ adapter.run[r].reopened
                /\ adapter.run[r].created \in CreatedSilences("T1")
            /\ Cardinality(CreatedSilences("T1")) = Cardinality(Runs)
            /\ Len(SelectSeq(comments["T1"], LAMBDA c : c.kind = "refired"))
                  = Cardinality(Runs)
        /\ \A r \in Runs :
            (/\ adapter.run[r].at = "done"
             /\ adapter.run[r].othersDone
             /\ adapter.run[r].othersReopened
             /\ adapter.run[r].outcome # "fetch_failed")
                => /\ adapter.run[r].outcome = "not_closed"
                   /\ ~adapter.run[r].reopened
                   /\ adapter.run[r].created = ""
                   /\ Cardinality(CreatedSilences("T1")) <= 1

\* both runs fetched the closed ticket before either reopened it, and both
\* have reopened it and created a silence for it
C37_Witness ==
    /\ adapter.op = "Overlap"
    /\ \A r \in Runs : WentThrough(r) /\ adapter.run[r].outcome = "created"
    /\ \A r \in Runs : ~adapter.run[r].othersDone
    /\ Cardinality(CreatedSilences("T1")) = 2
    /\ adapter.run[1].created # adapter.run[2].created

\* C38: whenever ReopenTicket returns an error, no comment has been added
\* to the ticket and no transition has been made.
C38_FailedReopenLeavesTicket ==
    (adapter.op = "ReopenTicket" /\ adapter.stage = "returned" /\ adapter.err # "")
        => \A k \in 1..Len(adapter.calls) :
              adapter.calls[k].ok =>
                  adapter.calls[k].op \notin {"AddComment", "doTransition"}

\* ReopenTicket has returned 'no reopen transition found' after it added
\* its comment to the ticket
C38_Witness ==
    /\ adapter.op = "ReopenTicket"
    /\ adapter.stage = "returned"
    /\ adapter.err = "no reopen transition found"
    /\ Len(adapter.calls) = 2
    /\ adapter.calls[1] = JiraCall("AddComment", TRUE, NoTransition)
    /\ adapter.calls[2] = JiraCall("getTransitions", TRUE, NoTransition)

\* the lower-cased status name contains one of these keys
NameHas(ks) == \E k \in ks : Contains(LowerText(adapter.name), k)

\* C39: mapJiraStatus gives the first match in the order open / to do,
\* in progress / in review, resolved / done, closed, reopen, and open for
\* any other name; the name Reopened therefore maps to open, and the
\* near-expiry silence of a ticket fetched in that status is extended.
C39_MapJiraStatusOrder ==
    (adapter.op = "mapJiraStatus" /\ adapter.stage # "reported") =>
        LET first  == NameHas({Key_open, Key_to_do})
            second == NameHas({Key_in_progress, Key_in_review})
            third  == NameHas({Key_resolved, Key_done})
            fourth == NameHas({Key_closed})
            fifth  == NameHas({Key_reopen})
        IN  /\ first => adapter.status = StatusOpen
            /\ (~first /\ second) => adapter.status = StatusInProgress
            /\ (~first /\ ~second /\ third) => adapter.status = StatusResolved
            /\ (~first /\ ~second /\ ~third /\ fourth)
                  => adapter.status = StatusClosed
            /\ (~first /\ ~second /\ ~third /\ ~fourth /\ fifth)
                  => adapter.status = StatusReopened
            /\ (~first /\ ~second /\ ~third /\ ~fourth /\ ~fifth)
                  => adapter.status = StatusOpen
            /\ adapter.name = <<"R", "e", "o", "p", "e", "n", "e", "d">>
                  => /\ adapter.status = StatusOpen
                     /\ adapter.stage = "processed"
                          => /\ adapter.extended = 1
                             /\ silences["s1"].EndsAt = NewEndTime

\* the ticket was fetched in the Jira status Reopened, taken for open, and
\* its silence, one hour from its end, has been extended
C39_Witness ==
    /\ adapter.op = "mapJiraStatus"
    /\ adapter.stage = "processed"
    /\ adapter.name = <<"R", "e", "o", "p", "e", "n", "e", "d">>
    /\ tickets["T1"] = StatusOpen
    /\ adapter.extended = 1
    /\ silences["s1"].EndsAt = 3
    /\ Len(comments["T1"]) = 1

\* main has returned or called os.Exit
Exited == adapter.op = "main" /\ adapter.stage = "exited"

\* the run failed: Sync returned an error, or the result carries errors
RunFailed == syncErr \/ Len(result.Errors) > 0

\* the five counter lines of the result are in the log
CountersLogged ==
    \E k \in 1..Len(adapter.log) :
        SubSeq(adapter.log, k, k + 4) = LogResults(result)

\* C40: the exit status of main is not zero whenever Sync returned an
\* error or result.Errors is not empty, and zero only when the run had
\* neither; the counters are logged in both cases.
C40_ExitStatusReflectsRun ==
    Exited =>
        /\ RunFailed => adapter.status # 0
        /\ adapter.status = 0 => ~RunFailed
        /\ CountersLogged

\* the counters are logged after every run, and a result with errors
\* gives a status other than zero
C40_ErrorsGiveNonZero ==
    Exited =>
        /\ Len(result.Errors) > 0 => adapter.status # 0
        /\ CountersLogged

\* ListSilences failed, Sync returned the error with an empty result, and
\* main logged the counters and the closing line and ended with status 0
C40_Witness ==
    /\ Exited
    /\ syncErr
    /\ calls = <<Call("ListSilences", FALSE, "list", 0)>>
    /\ result = EmptyResult
    /\ adapter.status = 0
    /\ adapter.log[1] = LogLine("Synchronization completed with errors", 0)
    /\ adapter.log[Len(adapter.log)]
          = LogLine("Synchronization completed successfully", 0)

====
